---- MODULE Spec2Model ----
(***************************************************************************)
(* A model of the JTAG TAP walker of jtag_rpi.py (class JTAGRpi): the      *)
(* batch parser, the jtag_step state machine, the jtag_next /              *)
(* process_command drivers and the chain access layer, together with the   *)
(* target it drives (an IEEE 1149.1 TAP controller and its TDO line).       *)
(*                                                                         *)
(* Python integers that may exceed 31 bits (register values, scan results) *)
(* are modelled as bit vectors: a sequence of 0/1, least significant bit   *)
(* first, with no most-significant zero; the empty sequence is 0.          *)
(* Bit strings of the source ("0101") are sequences of the characters      *)
(* "0" and "1", most significant first, as in the source.                  *)
(***************************************************************************)
EXTENDS Integers, Sequences, FiniteSets, TLC

VARIABLES
    \* fields of JTAGRpi
    state,          \* self.state
    jtag_legs,      \* self.jtag_legs
    cur_leg,        \* self.cur_leg
    tdo_vect,       \* self.tdo_vect
    jtag_results,   \* self.jtag_results
    readout,        \* self.readout
    do_pause,       \* self.do_pause
    last_ir_val,    \* self.last_ir_val
    readdata,       \* self.readdata
    tms_reset_num,  \* self.tms_reset_num
    devices,        \* self.devices
    acc,            \* the attributes access() sets, and its arguments
    \* control
    pc,             \* where the driver is: the loop whose jtag_step call is next
    \* the target and the pins
    tap,            \* the target's TAP controller state
    tdo_pin,        \* level of the TDO line
    tdo_pat,        \* the bits the target has driven in this scan (one period)
    pin_log,        \* pin reads and writes since the batch began
    \* observation
    batch,          \* the rows given to the running parse_rows
    start_state,    \* self.state when the batch began
    cur_idx,        \* position in the batch of the leg in cur_leg (0: none)
    exec_log,       \* positions of the legs carried out, in order
    scan_kind,      \* kind of the scan leg in progress or last completed
    samples,        \* TDO level just before each Shift cycle of this scan
    sampled,        \* [leg, bits]: the samples of every completed scan of the batch
    prev_acc,       \* device, jwrite, ir_val and total_ir_val of the previous access
    given,          \* the rows of the batch as text, when they were given as text
    \* fields of XVCServer
    running,        \* self.running
    jtag_delay,     \* self.jtag_delay
    gpio,           \* self.tdo, self.tdi, self.tck, self.tms: "none", "open" or "closed"
    server_socket,  \* self.server_socket: "none", "open", "listening" or "closed"
    \* start_server, handle_client, safe_read and handle_shift
    xpc,            \* where the server is
    rc,             \* what start_server returned (-1: it has not)
    conn,           \* the client socket: "none", "open" or "closed"
    want,           \* safe_read: length
    rdata,          \* safe_read: data
    rcont,          \* which safe_read of handle_client is running
    sh,             \* handle_shift and gpio_transfer: arguments and locals
    \* the pins, the target and the client
    pins,           \* levels last written to TCK, TMS and TDI
    tmode,          \* what the target drives on TDO: "zero", "loop" (TDI) or "free"
    tpat,           \* "free": the bits the target has driven (one period)
    stream,         \* the bytes the client sends on this connection
    hangup,         \* whether the client closes after sending them
    \* observation
    pos,            \* bytes of the stream received so far
    replies,        \* the replies sent on this connection, in order
    xlog,           \* pin writes and TDO reads since the command began
    sent0,          \* number of replies sent when the command began
    cause,          \* why handle_client left its loop ("" while it has not)
    nrecv,          \* chunks received by the safe_read that ran last
    timed,          \* whether an accept or a recv has timed out since the last accept
    clients         \* connections accepted so far

walker == <<state, jtag_legs, cur_leg, tdo_vect, jtag_results, readout,
            do_pause, last_ir_val, readdata, tms_reset_num>>
target == <<tap, tdo_pin, tdo_pat, pin_log>>
ghost  == <<batch, start_state, cur_idx, exec_log, scan_kind, samples, sampled>>
jtag   == <<walker, devices, acc, pc, target, ghost, prev_acc, given>>
server == <<running, jtag_delay, gpio, server_socket, xpc, rc, conn, want, rdata, rcont, sh>>
world  == <<pins, tmode, tpat, stream, hangup>>
seen   == <<pos, replies, xlog, sent0, cause, nrecv, timed, clients>>
xvc    == <<server, world, seen>>
vars   == <<jtag, xvc>>

----------------------------------------------------------------------------
\* Bounds of the model.

MaxLegs == 2        \* rows in a batch
MaxBits == 2        \* declared length of a scan row
TdoPeriod == 3      \* period of the bit stream the target drives in a scan
MaxDevices == 2     \* devices in the chain

----------------------------------------------------------------------------
\* Python integers as bit vectors, and the conversions the source uses.

Bit == {0, 1}

RECURSIVE Norm(_)
Norm(v) == IF v = <<>> THEN <<>>
           ELSE IF v[Len(v)] = 0 THEN Norm(SubSeq(v, 1, Len(v) - 1))
           ELSE v

Zeros(n) == [i \in 1..n |-> 0]

Reverse(s) == [i \in 1..Len(s) |-> s[Len(s) + 1 - i]]

RECURSIVE Pow2(_)
Pow2(n) == IF n = 0 THEN 1 ELSE 2 * Pow2(n - 1)

RECURSIVE ToNat(_)
ToNat(v) == IF v = <<>> THEN 0 ELSE v[1] + 2 * ToNat(Tail(v))

RECURSIVE FromNat(_)
FromNat(n) == IF n = 0 THEN <<>> ELSE <<n % 2>> \o FromNat(n \div 2)

\* v << k
Shl(v, k) == IF v = <<>> THEN <<>> ELSE Zeros(k) \o v

\* v >> k
Shr(v, k) == IF k >= Len(v) THEN <<>> ELSE SubSeq(v, k + 1, Len(v))

\* 2**n - 1
Ones(n) == [i \in 1..n |-> 1]

\* a & b
BitAnd(a, b) ==
    LET n == IF Len(a) < Len(b) THEN Len(a) ELSE Len(b)
    IN  Norm([i \in 1..n |-> IF a[i] = 1 /\ b[i] = 1 THEN 1 ELSE 0])

\* a + b, by ripple carry
RECURSIVE AddC(_, _, _)
AddC(a, b, c) ==
    IF a = <<>> /\ b = <<>> THEN (IF c = 1 THEN <<1>> ELSE <<>>)
    ELSE LET x == IF a = <<>> THEN 0 ELSE a[1]
             y == IF b = <<>> THEN 0 ELSE b[1]
             s == x + y + c
         IN  <<s % 2>> \o AddC(IF a = <<>> THEN <<>> ELSE Tail(a),
                               IF b = <<>> THEN <<>> ELSE Tail(b), s \div 2)

Add(a, b) == Norm(AddC(a, b, 0))

\* int(s, 2) for a string s of binary digits
IntFromBin(s) == Norm(Reverse([i \in 1..Len(s) |-> IF s[i] = "1" THEN 1 ELSE 0]))

\* bin(v)[2:]
Bin(v) == IF v = <<>> THEN <<"0">>
          ELSE Reverse([i \in 1..Len(v) |-> IF v[i] = 1 THEN "1" ELSE "0"])

\* "%0*d" % (length, int(digits)): the digits, zero-padded on the left to
\* at least length characters
ZeroPad(length, digits) ==
    IF Len(digits) >= length THEN digits
    ELSE [i \in 1..(length - Len(digits)) |-> "0"] \o digits

\* the sentinel -1 of last_ir_val: a value no bit vector equals
MinusOne == <<-1>>

----------------------------------------------------------------------------
\* The target: the IEEE 1149.1 TAP controller, one transition per rising
\* edge of TCK on the TMS level presented, and its TDO line.

TapStates == {"TLR", "RTI",
              "SelectDR", "CaptureDR", "ShiftDR", "Exit1DR", "PauseDR", "Exit2DR", "UpdateDR",
              "SelectIR", "CaptureIR", "ShiftIR", "Exit1IR", "PauseIR", "Exit2IR", "UpdateIR"}

TapNext(s, tms) ==
    CASE s = "TLR"       -> IF tms = 1 THEN "TLR" ELSE "RTI"
      [] s = "RTI"       -> IF tms = 1 THEN "SelectDR" ELSE "RTI"
      [] s = "SelectDR"  -> IF tms = 1 THEN "SelectIR" ELSE "CaptureDR"
      [] s = "CaptureDR" -> IF tms = 1 THEN "Exit1DR" ELSE "ShiftDR"
      [] s = "ShiftDR"   -> IF tms = 1 THEN "Exit1DR" ELSE "ShiftDR"
      [] s = "Exit1DR"   -> IF tms = 1 THEN "UpdateDR" ELSE "PauseDR"
      [] s = "PauseDR"   -> IF tms = 1 THEN "Exit2DR" ELSE "PauseDR"
      [] s = "Exit2DR"   -> IF tms = 1 THEN "UpdateDR" ELSE "ShiftDR"
      [] s = "UpdateDR"  -> IF tms = 1 THEN "SelectDR" ELSE "RTI"
      [] s = "SelectIR"  -> IF tms = 1 THEN "TLR" ELSE "CaptureIR"
      [] s = "CaptureIR" -> IF tms = 1 THEN "Exit1IR" ELSE "ShiftIR"
      [] s = "ShiftIR"   -> IF tms = 1 THEN "Exit1IR" ELSE "ShiftIR"
      [] s = "Exit1IR"   -> IF tms = 1 THEN "UpdateIR" ELSE "PauseIR"
      [] s = "PauseIR"   -> IF tms = 1 THEN "Exit2IR" ELSE "PauseIR"
      [] s = "Exit2IR"   -> IF tms = 1 THEN "UpdateIR" ELSE "ShiftIR"
      [] s = "UpdateIR"  -> IF tms = 1 THEN "SelectDR" ELSE "RTI"

\* What the target may put on TDO at the falling edge that follows a
\* transition into state s: while shifting, any bit stream of period
\* TdoPeriod (the first TdoPeriod bits are free, later ones repeat them);
\* otherwise the line is low.
TargetTdo(s, pat) ==
    IF s \in {"ShiftDR", "ShiftIR"}
    THEN IF Len(pat) < TdoPeriod
         THEN {[bit |-> b, pat |-> Append(pat, b)] : b \in Bit}
         ELSE {[bit |-> Head(pat), pat |-> Append(Tail(pat), Head(pat))]}
    ELSE {[bit |-> 0, pat |-> <<>>]}

----------------------------------------------------------------------------
\* phy_sync: the pin events of one call, in order, and the value returned.
\* A pin event is <<pin, level>>; the event on "tdo" is the read.

\* (variant of PhySyncEvents: TMS written before TDI)
PhySyncEventsTmsFirst(tdo, tdi, tms) ==
    << <<"tdo", tdo>>, <<"tck", 0>>, <<"tms", tms>>, <<"tdi", tdi>>,
       <<"tck", 1>>, <<"tck", 0>> >>

\* (variant of PhySyncEvents: TDO read after the rising edge)
PhySyncEventsLateRead(tdo, tdi, tms) ==
    << <<"tck", 0>>, <<"tdi", tdi>>, <<"tms", tms>>,
       <<"tck", 1>>, <<"tdo", tdo>>, <<"tck", 0>> >>

PhySyncEvents(tdo, tdi, tms) ==
    << <<"tdo", tdo>>, <<"tck", 0>>, <<"tdi", tdi>>, <<"tms", tms>>,
       <<"tck", 1>>, <<"tck", 0>> >>

\* (variant of PhySyncTdo: the level after the call's clock edges)
PhySyncTdoLate(before, after) == after

\* the TDO level phy_sync returns, given the level before its first write
\* and the level after its last
PhySyncTdo(before, after) == before

\* A run of phy_sync calls, each <<tdi, tms>>, against the target: the set
\* of outcomes [tap, tdo, pat, log].
RECURSIVE Clock(_, _)
Clock(env, calls) ==
    IF calls = <<>> THEN {env}
    ELSE LET c    == Head(calls)
             tap2 == TapNext(env.tap, c[2])
             log2 == env.log \o PhySyncEvents(env.tdo, c[1], c[2])
         IN  UNION { Clock([tap |-> tap2, tdo |-> o.bit, pat |-> o.pat, log |-> log2],
                           Tail(calls)) : o \in TargetTdo(tap2, env.pat) }

Sync(calls) ==
    \E e \in Clock([tap |-> tap, tdo |-> tdo_pin, pat |-> tdo_pat, log |-> pin_log], calls) :
        /\ tap' = e.tap
        /\ tdo_pin' = e.tdo
        /\ tdo_pat' = e.pat
        /\ pin_log' = e.log

NoSync == UNCHANGED target

----------------------------------------------------------------------------
\* parse_row: a row is <<chain, length, value>> or <<chain, length, value,
\* tag>>; chain is the lower-cased, stripped first field, length a number
\* and value a bit vector.  A leg is <<kind, bits, tag>>.

ScanChains  == {"dr", "ir", "irp", "ird"}
BareChains  == {"rs", "dl", "id"}
KnownChains == ScanChains \cup BareChains \cup {"drc", "drr", "drs"}

ScanKinds == {"DR", "IR", "IRP", "IRD"}

\* (variant of ParseRow: the DRC, DRR and DRS legs are queued)
ParseRowQueuesAll(row) ==
    IF Len(row) < 3 THEN [res |-> "skip", cmd |-> <<>>]
    ELSE LET chain  == row[1]
             bits   == ZeroPad(row[2], Bin(row[3]))
             tag    == IF Len(row) > 3 THEN row[4] ELSE " "
         IN  IF chain = "#" THEN [res |-> "skip", cmd |-> <<>>]
             ELSE IF chain \notin KnownChains THEN [res |-> "exit", cmd |-> <<>>]
             ELSE IF chain = "rs" THEN [res |-> "cmd", cmd |-> <<"RS", <<"0">>, "0">>]
             ELSE IF chain = "dl" THEN [res |-> "cmd", cmd |-> <<"DL", <<"0">>, "0">>]
             ELSE IF chain = "id" THEN [res |-> "cmd", cmd |-> <<"ID", <<"0">>, "0">>]
             ELSE IF chain = "dr" THEN [res |-> "cmd", cmd |-> <<"DR", bits, tag>>]
             ELSE IF chain = "drc" THEN [res |-> "cmd", cmd |-> <<"DRC", bits, tag>>]
             ELSE IF chain = "drr" THEN [res |-> "cmd", cmd |-> <<"DRR", bits, tag>>]
             ELSE IF chain = "drs" THEN [res |-> "cmd", cmd |-> <<"DRS", bits, tag>>]
             ELSE IF chain = "ir" THEN [res |-> "cmd", cmd |-> <<"IR", bits, tag>>]
             ELSE IF chain = "ird" THEN [res |-> "cmd", cmd |-> <<"IRD", bits, tag>>]
             ELSE [res |-> "cmd", cmd |-> <<"IRP", bits, tag>>]

ParseRow(row) ==
    IF Len(row) < 3 THEN [res |-> "skip", cmd |-> <<>>]
    ELSE LET chain  == row[1]
             length == row[2]
             value  == row[3]
             bits   == ZeroPad(length, Bin(value))
             tag    == IF Len(row) > 3 THEN row[4] ELSE " "
         IN  IF chain = "#" THEN [res |-> "skip", cmd |-> <<>>]
             ELSE IF chain \notin KnownChains THEN [res |-> "exit", cmd |-> <<>>]
             ELSE IF chain = "rs" THEN [res |-> "cmd", cmd |-> <<"RS", <<"0">>, "0">>]
             ELSE IF chain = "dl" THEN [res |-> "cmd", cmd |-> <<"DL", <<"0">>, "0">>]
             ELSE IF chain = "id" THEN [res |-> "cmd", cmd |-> <<"ID", <<"0">>, "0">>]
             ELSE IF chain = "dr" THEN [res |-> "cmd", cmd |-> <<"DR", bits, tag>>]
             ELSE IF chain \in {"drc", "drr", "drs"} THEN [res |-> "raise", cmd |-> <<>>]
             ELSE IF chain = "ir" THEN [res |-> "cmd", cmd |-> <<"IR", bits, tag>>]
             ELSE IF chain = "ird" THEN [res |-> "cmd", cmd |-> <<"IRD", bits, tag>>]
             ELSE [res |-> "cmd", cmd |-> <<"IRP", bits, tag>>]

\* the loop of parse_rows over the rows: the legs appended before the first
\* row that raises or exits, and how the loop ended
RECURSIVE ParseAll(_, _)
ParseAll(rows, legs) ==
    IF rows = <<>> THEN [res |-> "ok", legs |-> legs]
    ELSE LET r == ParseRow(Head(rows))
         IN  IF r.res = "cmd" THEN ParseAll(Tail(rows), Append(legs, r.cmd))
             ELSE IF r.res = "skip" THEN ParseAll(Tail(rows), legs)
             ELSE [res |-> r.res, legs |-> legs]

----------------------------------------------------------------------------
\* process_command and jtag_next.  pc names the loop whose jtag_step call
\* comes next: "loop1" is jtag_next's run-until-out-of-idle loop, "loop2"
\* its run-to-idle loop; "idle" is outside parse_rows; "raised" and
\* "exited" are an exception leaving parse_rows and exit(1).

IdleStates == {"TEST_LOGIC_RESET", "RUN_TEST_IDLE"}

\* the head of process_command's loop, entering jtag_next when legs remain
ProcHead(st, legs) ==
    IF legs = <<>> THEN "idle"
    ELSE IF st \in IdleStates THEN "loop1" ELSE "loop2"

\* (variant of AfterLoop2: process_command calls jtag_next once)
AfterLoop2Once(st, legs) ==
    IF st \notin IdleStates THEN "loop2" ELSE "idle"

\* after a jtag_step of the run-to-idle loop
AfterLoop2(st, legs) ==
    IF st \notin IdleStates THEN "loop2" ELSE ProcHead(st, legs)

\* after a jtag_step of the first loop: break on an empty cur_leg, go round
\* again while the state is idle
AfterLoop1(st, cl, legs) ==
    IF cl # <<>> /\ st \in IdleStates THEN "loop1" ELSE AfterLoop2(st, legs)

Return == pc' = IF pc = "loop1" THEN AfterLoop1(state', cur_leg', jtag_legs')
                ELSE AfterLoop2(state', jtag_legs')

Stepping == pc \in {"loop1", "loop2"}

Outside == UNCHANGED <<devices, acc, prev_acc, batch, given, start_state, tms_reset_num, xvc>>

\* position in the batch of the leg at the head of jtag_legs
HeadIdx == Len(ParseAll(batch, <<>>).legs) - Len(jtag_legs) + 1

----------------------------------------------------------------------------
\* jtag_step, one action per branch.

StepTestLogicReset ==
    /\ Stepping /\ state = "TEST_LOGIC_RESET"
    /\ IF jtag_legs # <<>>
       THEN /\ Sync(<< <<0, 0>> >>)
            /\ state' = "RUN_TEST_IDLE"
            /\ last_ir_val' = MinusOne
       ELSE /\ NoSync
            /\ UNCHANGED <<state, last_ir_val>>
    /\ UNCHANGED <<jtag_legs, cur_leg, tdo_vect, jtag_results, readout, do_pause, readdata>>
    /\ UNCHANGED <<cur_idx, exec_log, scan_kind, samples, sampled>>
    /\ Outside
    /\ Return

\* RUN_TEST_IDLE with a DR, DRC, DRR or DRS leg
StepIdleDr ==
    /\ Stepping /\ state = "RUN_TEST_IDLE" /\ cur_leg # <<>>
    /\ cur_leg[1] \in {"DR", "DRC", "DRR", "DRS"}
    /\ Sync(<< <<0, 1>> >>)
    /\ readout' = (cur_leg[1] \in {"DRR", "DRS"})
    /\ state' = "SELECT_SCAN"
    /\ scan_kind' = cur_leg[1]
    /\ UNCHANGED <<jtag_legs, cur_leg, tdo_vect, jtag_results, do_pause, last_ir_val, readdata>>
    /\ UNCHANGED <<cur_idx, exec_log, samples, sampled>>
    /\ Outside
    /\ Return

\* (variant of PauseFor: an IRD leg pauses too)
PauseForIrd(kind) == kind \in {"IRP", "IRD"}

\* do_pause as RUN_TEST_IDLE sets it for an IR, IRD or IRP leg
PauseFor(kind) == kind = "IRP"

\* RUN_TEST_IDLE with an IR, IRD or IRP leg
StepIdleIr ==
    /\ Stepping /\ state = "RUN_TEST_IDLE" /\ cur_leg # <<>>
    /\ cur_leg[1] \in {"IR", "IRD", "IRP"}
    /\ Sync(<< <<0, 1>>, <<0, 1>> >>)
    /\ do_pause' = PauseFor(cur_leg[1])
    /\ state' = "SELECT_SCAN"
    /\ scan_kind' = cur_leg[1]
    /\ UNCHANGED <<jtag_legs, cur_leg, tdo_vect, jtag_results, readout, last_ir_val, readdata>>
    /\ UNCHANGED <<cur_idx, exec_log, samples, sampled>>
    /\ Outside
    /\ Return

\* RUN_TEST_IDLE with an RS leg: the TMS reset
StepIdleRs ==
    /\ Stepping /\ state = "RUN_TEST_IDLE" /\ cur_leg # <<>>
    /\ cur_leg[1] = "RS"
    /\ Sync([i \in 1..tms_reset_num |-> <<0, 1>>])
    /\ state' = "TEST_LOGIC_RESET"
    /\ last_ir_val' = MinusOne
    /\ IF jtag_legs # <<>>
       THEN cur_leg' = Head(jtag_legs) /\ jtag_legs' = Tail(jtag_legs) /\ cur_idx' = HeadIdx
       ELSE cur_leg' = <<>> /\ jtag_legs' = jtag_legs /\ cur_idx' = 0
    /\ exec_log' = Append(exec_log, cur_idx)
    /\ UNCHANGED <<tdo_vect, jtag_results, readout, do_pause, readdata>>
    /\ UNCHANGED <<scan_kind, samples, sampled>>
    /\ Outside
    /\ Return

\* RUN_TEST_IDLE with a DL or ID leg: the delay, or one idle cycle, then
\* jtag_legs.pop(0), which raises IndexError on an empty list
StepIdleDlId ==
    /\ Stepping /\ state = "RUN_TEST_IDLE" /\ cur_leg # <<>>
    /\ cur_leg[1] \in {"DL", "ID"}
    /\ IF cur_leg[1] = "ID" THEN Sync(<< <<0, 0>> >>) ELSE NoSync
    /\ exec_log' = Append(exec_log, cur_idx)
    /\ IF jtag_legs # <<>>
       THEN /\ cur_leg' = Head(jtag_legs)
            /\ jtag_legs' = Tail(jtag_legs)
            /\ cur_idx' = HeadIdx
            /\ UNCHANGED state
            /\ Return
       ELSE /\ UNCHANGED <<cur_leg, jtag_legs, state, cur_idx>>
            /\ pc' = "raised"
    /\ UNCHANGED <<tdo_vect, jtag_results, readout, do_pause, last_ir_val, readdata>>
    /\ UNCHANGED <<scan_kind, samples, sampled>>
    /\ Outside

\* RUN_TEST_IDLE with no leg in hand
StepIdleFetch ==
    /\ Stepping /\ state = "RUN_TEST_IDLE" /\ cur_leg = <<>>
    /\ IF jtag_legs # <<>>
       THEN /\ cur_leg' = Head(jtag_legs)
            /\ jtag_legs' = Tail(jtag_legs)
            /\ cur_idx' = HeadIdx
            /\ NoSync
       ELSE /\ Sync(<< <<0, 0>> >>)
            /\ UNCHANGED <<cur_leg, jtag_legs, cur_idx>>
    /\ state' = "RUN_TEST_IDLE"
    /\ UNCHANGED <<tdo_vect, jtag_results, readout, do_pause, last_ir_val, readdata>>
    /\ UNCHANGED <<exec_log, scan_kind, samples, sampled>>
    /\ Outside
    /\ Return

StepSelectScan ==
    /\ Stepping /\ state = "SELECT_SCAN"
    /\ Sync(<< <<0, 0>> >>)
    /\ state' = "CAPTURE"
    /\ UNCHANGED <<jtag_legs, cur_leg, tdo_vect, jtag_results, readout, do_pause,
                   last_ir_val, readdata>>
    /\ UNCHANGED <<cur_idx, exec_log, scan_kind, samples, sampled>>
    /\ Outside
    /\ Return

StepCapture ==
    /\ Stepping /\ state = "CAPTURE"
    /\ Sync(<< <<0, 0>> >>)
    /\ tdo_vect' = <<>>
    /\ state' = "SHIFT"
    /\ samples' = <<>>
    /\ UNCHANGED <<jtag_legs, cur_leg, jtag_results, readout, do_pause, last_ir_val, readdata>>
    /\ UNCHANGED <<cur_idx, exec_log, scan_kind, sampled>>
    /\ Outside
    /\ Return

\* the character prepended to tdo_vect for a TDO level
TdoChar(tdo) == IF tdo = 1 THEN "1" ELSE "0"

\* (variant of ShiftTdi: the level read on TDO is driven back on TDI)
ShiftTdiEcho(bits) == tdo_pin

ShiftTdiFirst(bits) == IF bits[1] = "1" THEN 1 ELSE 0

\* the TDI level of a Shift cycle that is not the last: cur_leg[1][-1]
ShiftTdi(bits) == IF bits[Len(bits)] = "1" THEN 1 ELSE 0

\* SHIFT: one bit per step, the last character of the string first; the
\* DRC and DRS fast paths raise
StepShift ==
    /\ Stepping /\ state = "SHIFT"
    /\ IF cur_leg[1] \in {"DRC", "DRS"}
       THEN /\ pc' = "raised"
            /\ NoSync
            /\ UNCHANGED <<state, cur_leg, tdo_vect, samples, exec_log, cur_idx>>
       ELSE /\ IF Len(cur_leg[2]) > 1
               THEN /\ Sync(<< <<ShiftTdi(cur_leg[2]), 0>> >>)
                    /\ cur_leg' = [cur_leg EXCEPT ![2] = SubSeq(@, 1, Len(@) - 1)]
                    /\ state' = "SHIFT"
                    /\ UNCHANGED <<exec_log, cur_idx>>
               ELSE /\ Sync(<< <<IF cur_leg[2][1] = "1" THEN 1 ELSE 0, 1>> >>)
                    /\ cur_leg' = <<>>
                    /\ state' = "EXIT1"
                    /\ exec_log' = Append(exec_log, cur_idx)
                    /\ cur_idx' = 0
            /\ tdo_vect' = <<TdoChar(PhySyncTdo(tdo_pin, tdo_pin'))>> \o tdo_vect
            /\ samples' = Append(samples, tdo_pin)
            /\ Return
    /\ UNCHANGED <<jtag_legs, jtag_results, readout, do_pause, last_ir_val, readdata>>
    /\ UNCHANGED <<scan_kind, sampled>>
    /\ Outside

StepExit1 ==
    /\ Stepping /\ state = "EXIT1"
    /\ IF do_pause
       THEN /\ Sync(<< <<0, 0>> >>)
            /\ state' = "PAUSE"
            /\ do_pause' = FALSE
       ELSE /\ Sync(<< <<0, 1>> >>)
            /\ state' = "UPDATE"
            /\ UNCHANGED do_pause
    /\ UNCHANGED <<jtag_legs, cur_leg, tdo_vect, jtag_results, readout, last_ir_val, readdata>>
    /\ UNCHANGED <<cur_idx, exec_log, scan_kind, samples, sampled>>
    /\ Outside
    /\ Return

StepPause ==
    /\ Stepping /\ state = "PAUSE"
    /\ Sync(<< <<0, 1>> >>)
    /\ state' = "EXIT2"
    /\ UNCHANGED <<jtag_legs, cur_leg, tdo_vect, jtag_results, readout, do_pause,
                   last_ir_val, readdata>>
    /\ UNCHANGED <<cur_idx, exec_log, scan_kind, samples, sampled>>
    /\ Outside
    /\ Return

StepExit2 ==
    /\ Stepping /\ state = "EXIT2"
    /\ Sync(<< <<0, 1>> >>)
    /\ state' = "UPDATE"
    /\ UNCHANGED <<jtag_legs, cur_leg, tdo_vect, jtag_results, readout, do_pause,
                   last_ir_val, readdata>>
    /\ UNCHANGED <<cur_idx, exec_log, scan_kind, samples, sampled>>
    /\ Outside
    /\ Return

\* (variant of ShortcutKinds: a DR leg waits in RUN_TEST_IDLE)
ShortcutKindsNoDr == {"IRP", "IRD"}

\* the kinds at the head of jtag_legs that UPDATE goes to directly
\* (variant of ShortcutKinds: IRD left out)
ShortcutKindsNoIrd == {"DR", "IRP"}

ShortcutKinds == {"DR", "IRP", "IRD"}

\* (variant of UpdateCalls: no extra cycle before an IR scan)
UpdateCallsOne(k) ==
    IF k \in ShortcutKinds THEN << <<0, 1>> >> ELSE << <<0, 0>> >>

\* the phy_sync calls of UPDATE for a head of kind k ("" for an empty list)
UpdateCalls(k) ==
    IF k \in ShortcutKinds
    THEN (IF k \in {"IRP", "IRD"} THEN << <<0, 1>> >> ELSE <<>>) \o << <<0, 1>> >>
    ELSE << <<0, 0>> >>

StepUpdate ==
    /\ Stepping /\ state = "UPDATE"
    /\ jtag_results' = Append(jtag_results, IntFromBin(tdo_vect))
    /\ readdata' = IF readout THEN IntFromBin(tdo_vect) ELSE readdata
    /\ readout' = FALSE
    /\ tdo_vect' = <<>>
    /\ sampled' = Append(sampled, [leg |-> exec_log[Len(exec_log)], bits |-> samples])
    /\ LET k == IF jtag_legs # <<>> THEN jtag_legs[1][1] ELSE ""
       IN  /\ Sync(UpdateCalls(k))
           /\ IF k \in ShortcutKinds
              THEN /\ do_pause' = IF k = "IRP" THEN TRUE ELSE do_pause
                   /\ cur_leg' = Head(jtag_legs)
                   /\ jtag_legs' = Tail(jtag_legs)
                   /\ cur_idx' = HeadIdx
                   /\ state' = "SELECT_SCAN"
                   /\ scan_kind' = k
              ELSE /\ state' = "RUN_TEST_IDLE"
                   /\ UNCHANGED <<do_pause, cur_leg, jtag_legs, scan_kind, cur_idx>>
    /\ UNCHANGED <<last_ir_val>>
    /\ UNCHANGED <<exec_log, samples>>
    /\ Outside
    /\ Return

jtag_step ==
    \/ StepTestLogicReset
    \/ StepIdleDr
    \/ StepIdleIr
    \/ StepIdleRs
    \/ StepIdleDlId
    \/ StepIdleFetch
    \/ StepSelectScan
    \/ StepCapture
    \/ StepShift
    \/ StepExit1
    \/ StepPause
    \/ StepExit2
    \/ StepUpdate

----------------------------------------------------------------------------
\* parse_rows: reset the queue, parse every row, then process_command.

ParseRowsBody(rows) ==
    LET parsed == ParseAll(rows, <<>>)
    IN  /\ jtag_legs' = parsed.legs
        /\ cur_leg' = <<>>
        /\ jtag_results' = <<>>
        /\ pc' = IF parsed.res = "raise" THEN "raised"
                 ELSE IF parsed.res = "exit" THEN "exited"
                 ELSE ProcHead(state, parsed.legs)
        /\ batch' = rows
        /\ given' = <<>>
        /\ start_state' = state
        /\ cur_idx' = 0
        /\ pin_log' = <<>>
        /\ exec_log' = <<>>
        /\ sampled' = <<>>
        /\ samples' = <<>>
        /\ scan_kind' = ""
        /\ UNCHANGED <<state, tdo_vect, readout, do_pause, last_ir_val, readdata>>
        /\ UNCHANGED <<tap, tdo_pin, tdo_pat>>

\* the rows a caller may pass: well-formed rows of the kinds parse_row accepts
\* (the tag "id" on ir rows, as access() writes it)
Values(n) == {FromNat(k) : k \in 0..(Pow2(n) - 1)}

ScanRows == UNION { IF c = "ir" THEN {<<c, n, v>>, <<c, n, v, "id">>} ELSE {<<c, n, v>>} :
                    <<c, n, v>> \in {<<c, n, v>> \in ScanChains \X (1..MaxBits) \X Values(MaxBits) :
                                     Len(v) <= n} }

BareRows == {<<c, 0, <<>> >> : c \in BareChains}

Rows == ScanRows \cup BareRows

RECURSIVE SeqsUpTo(_, _)
SeqsUpTo(S, n) ==
    IF n = 0 THEN {<<>>}
    ELSE LET shorter == SeqsUpTo(S, n - 1)
         IN  shorter \cup {Append(q, x) : q \in {p \in shorter : Len(p) = n - 1}, x \in S}

Batches == SeqsUpTo(Rows, MaxLegs) \ {<<>>}

\* parse_rows is entered (its three resets are done: the pc is "parse"), then
\* it parses the rows it was given and runs process_command
ParseRowsBegin ==
    /\ pc = "idle"
    /\ ~acc.active
    /\ jtag_legs' = <<>>
    /\ cur_leg' = <<>>
    /\ jtag_results' = <<>>
    /\ pc' = "parse"
    /\ batch' = <<>>
    /\ given' = <<>>
    /\ start_state' = state
    /\ cur_idx' = 0
    /\ pin_log' = <<>>
    /\ exec_log' = <<>>
    /\ sampled' = <<>>
    /\ samples' = <<>>
    /\ scan_kind' = ""
    /\ UNCHANGED <<state, tdo_vect, readout, do_pause, last_ir_val, readdata>>
    /\ UNCHANGED <<tap, tdo_pin, tdo_pat>>
    /\ UNCHANGED <<devices, acc, prev_acc, tms_reset_num, xvc>>

ParseRows ==
    \E rows \in Batches :
        /\ pc = "parse"
        /\ ParseRowsBody(rows)
        /\ UNCHANGED <<devices, acc, prev_acc, tms_reset_num, xvc>>

\* reset_fsm(num): set tms_reset_num and run the batch "rs, 0, 0"
DefaultResetNum == 7

ResetFsm ==
    \E num \in {DefaultResetNum} :
        /\ pc = "idle"
        /\ tms_reset_num' = num
        /\ ParseRowsBody(<< <<"rs", 0, <<>> >> >>)
        /\ UNCHANGED <<devices, acc, prev_acc, xvc>>

----------------------------------------------------------------------------
\* The walker after construction, facing a target in Run-Test/Idle.

NoAccess == [active |-> FALSE, returned_data |-> <<>>]

Constructed ==
    /\ state = "RUN_TEST_IDLE"
    /\ jtag_legs = <<>>
    /\ cur_leg = <<>>
    /\ tdo_vect = <<>>
    /\ jtag_results = <<>>
    /\ readout = FALSE
    /\ do_pause = FALSE
    /\ last_ir_val = MinusOne
    /\ readdata = <<>>
    /\ tms_reset_num = DefaultResetNum
    /\ given = <<>>
    /\ acc = NoAccess
    /\ pc = "idle"
    /\ tap = "RTI"
    /\ tdo_pin = 0
    /\ tdo_pat = <<>>
    /\ pin_log = <<>>
    /\ batch = <<>>
    /\ exec_log = <<>>
    /\ scan_kind = ""
    /\ samples = <<>>
    /\ sampled = <<>>
    /\ start_state = "RUN_TEST_IDLE"
    /\ cur_idx = 0
    /\ prev_acc = [first |-> TRUE]

----------------------------------------------------------------------------
\* An XVCServer after construction, its start_server not yet called, facing
\* a target of the given kind.

DefaultDelay == 40

NoShift == [active |-> FALSE]

XvcConstructed(mode) ==
    /\ running = TRUE
    /\ jtag_delay = DefaultDelay
    /\ gpio = [d \in {"tdo", "tdi", "tck", "tms"} |-> "none"]
    /\ server_socket = "none"
    /\ xpc = "new"
    /\ rc = -1
    /\ conn = "none"
    /\ want = 0
    /\ rdata = <<>>
    /\ rcont = ""
    /\ sh = NoShift
    /\ pins = [tck |-> 0, tms |-> 0, tdi |-> 0]
    /\ tmode = mode
    /\ tpat = <<>>
    /\ stream = <<>>
    /\ hangup = FALSE
    /\ pos = 0
    /\ replies = <<>>
    /\ xlog = <<>>
    /\ sent0 = 0
    /\ cause = ""
    /\ nrecv = 0
    /\ timed = FALSE
    /\ clients = 0

Init == Constructed /\ devices = <<>> /\ XvcConstructed("zero")

----------------------------------------------------------------------------
\* The chain and access().  A device of the catalog is [ir_len, regs]; a
\* register is [name, address, width].  Devices are numbered from 0 as in
\* the source: devices[d + 1] is device d.

HexDigit(h) == << (h \div 8) % 2, (h \div 4) % 2, (h \div 2) % 2, h % 2 >>

RECURSIVE HexBits(_)
HexBits(hs) == IF hs = <<>> THEN <<>> ELSE HexDigit(Head(hs)) \o HexBits(Tail(hs))

\* the integer written with the hexadecimal digits hs
Hex(hs) == Norm(Reverse(HexBits(hs)))

DeviceA == [ir_len |-> 2,
            regs |-> {[name |-> "BYPASS", address |-> FromNat(3), width |-> 1],
                      [name |-> "USER",   address |-> FromNat(1), width |-> 2]}]

DeviceB == [ir_len |-> 1,
            regs |-> {[name |-> "BYPASS", address |-> FromNat(1), width |-> 1],
                      [name |-> "USER",   address |-> FromNat(0), width |-> 1]}]

\* the device of the scenarios: a 6-bit instruction register, IDCODE 0x09,
\* 32-bit data registers
DeviceS == [ir_len |-> 6,
            regs |-> {[name |-> "BYPASS", address |-> Hex(<<3, 15>>), width |-> 1],
                      [name |-> "IDCODE", address |-> Hex(<<0, 9>>),  width |-> 32]}]

DeadBeef == Hex(<<13, 14, 10, 13, 11, 14, 14, 15>>)

SmallDevices == {DeviceA, DeviceB}

Chains == (SeqsUpTo(SmallDevices, MaxDevices) \ {<<>>}) \cup {<<DeviceS, DeviceA>>}

\* self.devices[i].names[n] and .addresses[a]
NameEntry(dev, n)    == CHOOSE r \in dev.regs : r.name = n
AddressEntry(dev, a) == CHOOSE r \in dev.regs : r.address = a

\* (variant of IrLoop: the devices taken from device 0 upwards)
RECURSIVE IrUp(_, _, _, _, _, _)
IrUp(devs, i, device, ir_val, total_ir_len, total_ir_val) ==
    IF i >= Len(devs) THEN [total_ir_len |-> total_ir_len, total_ir_val |-> total_ir_val]
    ELSE LET v == IF i = device THEN ir_val
                  ELSE (CHOOSE r \in devs[i + 1].regs : r.name = "BYPASS").address
         IN  IrUp(devs, i + 1, device, ir_val,
                  total_ir_len + devs[i + 1].ir_len,
                  Add(total_ir_val, Shl(v, total_ir_len)))

IrLoopForward(devs, i, device, ir_val, total_ir_len, total_ir_val) ==
    IrUp(devs, 0, device, ir_val, total_ir_len, total_ir_val)

\* the loop of access() over reversed(list(enumerate(self.devices))), from
\* device i down to device 0, with the running total_ir_len and total_ir_val
RECURSIVE IrLoop(_, _, _, _, _, _)
IrLoop(devs, i, device, ir_val, total_ir_len, total_ir_val) ==
    IF i < 0 THEN [total_ir_len |-> total_ir_len, total_ir_val |-> total_ir_val]
    ELSE LET v == IF i = device THEN ir_val
                  ELSE NameEntry(devs[i + 1], "BYPASS").address
         IN  IrLoop(devs, i - 1, device, ir_val,
                    total_ir_len + devs[i + 1].ir_len,
                    Add(total_ir_val, Shl(v, total_ir_len)))

\* (variant of PadShift: the device's own index)
PadShiftIndex(n, device) == device

\* (variant of DrVal: the data shifted whenever one is given)
DrValGiven(write, data, n, device) ==
    IF data # <<-1>> THEN Shl(data, n - 1 - device) ELSE <<>>

\* (variant of DrVal: the data not shifted)
DrValUnshifted(write, data, n, device) == IF write THEN data ELSE <<>>

\* data << (len(self.devices) - 1 - self.device)
PadShift(n, device) == n - 1 - device

DrVal(write, data, n, device) ==
    IF write THEN Shl(data, PadShift(n, device)) ELSE <<>>

TotalDrLen(dr_len, n) == dr_len + n - 1

\* (variant of AccessRows: the IR row every time)
AccessRowsAlways(total_ir_len, total_ir_val, total_dr_len, dr_val, last) ==
    << <<"ir", total_ir_len, total_ir_val, "id">>, <<"dr", total_dr_len, dr_val>> >>

\* the rows access() hands to parse_rows
AccessRows(total_ir_len, total_ir_val, total_dr_len, dr_val, last) ==
    (IF total_ir_val # last THEN << <<"ir", total_ir_len, total_ir_val, "id">> >> ELSE <<>>)
    \o << <<"dr", total_dr_len, dr_val>> >>

\* the value access() returns, from the last entry of jtag_results
ReturnedData(result, n, device, dr_mask) ==
    BitAnd(Shr(result, PadShift(n, device)), dr_mask)

\* the arguments of an access: addr as a name or as a number
AddrArgs(dev) == {<<"str", r.name>> : r \in dev.regs} \cup {<<"int", r.address>> : r \in dev.regs}

ResolveAddr(dev, addr) ==
    IF addr[1] = "str" THEN NameEntry(dev, addr[2]).address ELSE addr[2]

\* the data of a write to a register of width w: every value that fits, or
\* the scenario's 0xDEADBEEF for a wide register
WriteData(w) == IF w <= MaxBits THEN Values(w) ELSE {DeadBeef}

\* access(addr, data, device, write) up to and including its call of
\* parse_rows, which starts the walker
AccessWith(writes, expected) ==
    \E device \in 0..(Len(devices) - 1) :
    \E addr \in AddrArgs(devices[device + 1]) :
    \E write \in writes :
        LET dev     == devices[device + 1]
            a       == ResolveAddr(dev, addr)
            dr_len  == AddressEntry(dev, a).width
            n       == Len(devices)
            ir      == IrLoop(devices, n - 1, device, a, 0, <<>>)
        IN  \E data \in (IF write THEN WriteData(dr_len) ELSE expected) :
            LET dr_val == DrVal(write, data, n, device)
            IN  /\ pc = "idle"
                /\ ~acc.active
                /\ acc' = [active |-> TRUE, device |-> device, jwrite |-> write,
                           data |-> data, ir_val |-> a,
                           dr_len |-> dr_len, dr_mask |-> Ones(dr_len),
                           total_dr_len |-> TotalDrLen(dr_len, n),
                           total_ir_len |-> ir.total_ir_len,
                           total_ir_val |-> ir.total_ir_val,
                           dr_val |-> dr_val,
                           returned_data |-> <<>>]
                /\ ParseRowsBody(AccessRows(ir.total_ir_len, ir.total_ir_val,
                                            TotalDrLen(dr_len, n), dr_val, last_ir_val))
                /\ UNCHANGED <<devices, prev_acc, tms_reset_num, xvc>>

\* access() called by write(), or by a caller that reads with data = -1
AccessCall == AccessWith(BOOLEAN, {MinusOne})

\* access() after parse_rows has returned
AccessReturn ==
    /\ pc = "idle"
    /\ acc.active
    /\ last_ir_val' = acc.total_ir_val
    /\ jtag_results' = SubSeq(jtag_results, 1, Len(jtag_results) - 1)
    /\ acc' = [acc EXCEPT !.active = FALSE,
                          !.returned_data =
                              ReturnedData(jtag_results[Len(jtag_results)],
                                           Len(devices), acc.device, acc.dr_mask)]
    /\ prev_acc' = [device |-> acc.device, jwrite |-> acc.jwrite,
                     ir_val |-> acc.ir_val, total_ir_val |-> acc.total_ir_val]
    /\ UNCHANGED <<state, jtag_legs, cur_leg, tdo_vect, readout, do_pause, readdata,
                   tms_reset_num, devices, pc>>
    /\ UNCHANGED <<target, ghost, given, xvc>>

\* jtag_step as called while access() runs its batch
AccessStep == acc.active /\ jtag_step

\* the walker after construction and the add_device calls that build a chain
InitAccess == Constructed /\ devices \in Chains /\ XvcConstructed("zero")

NextAccess == AccessCall \/ AccessStep \/ AccessReturn

SpecAccess == InitAccess /\ [][NextAccess]_vars

\* read(addr, data, device): access(addr, data, device, False) with the
\* default data of -1 or with an expected value; after access() has
\* returned, read() compares and logs a warning, which changes no state
ReadExpected == {<<>>, FromNat(3)}

ReadCall == AccessWith({FALSE}, {MinusOne} \cup ReadExpected)

NextRead == ReadCall \/ AccessStep \/ AccessReturn

SpecRead == InitAccess /\ [][NextRead]_vars

Next == ParseRowsBegin \/ ParseRows \/ ResetFsm \/ jtag_step

Spec == Init /\ [][Next]_vars

----------------------------------------------------------------------------
\* parse_rows of rows given as text, as a caller reading a command file
\* passes them: the length and the value of a row are sequences of
\* characters, which parse_row converts with int().

Digits == <<"0", "1", "2", "3", "4", "5", "6", "7", "8", "9",
            "a", "b", "c", "d", "e", "f">>

\* the value of a character as a digit; 16 when it is none
DigitOf(c) ==
    IF \E k \in 1..16 : Digits[k] = c
    THEN (CHOOSE k \in 1..16 : Digits[k] = c) - 1
    ELSE 16

HasPrefix(text, p) == Len(text) >= 2 /\ SubSeq(text, 1, 2) = p

RECURSIVE DigitsVal(_, _)
DigitsVal(ds, base) ==
    IF ds = <<>> THEN 0
    ELSE DigitsVal(SubSeq(ds, 1, Len(ds) - 1), base) * base + DigitOf(ds[Len(ds)])

\* int(text, base) for a text without sign, blanks or underscores: whether
\* it converts (it raises ValueError when not), and the number
IntOf(text, base) ==
    LET body == IF base = 16 /\ HasPrefix(text, <<"0", "x">>) THEN SubSeq(text, 3, Len(text))
                ELSE IF base = 2 /\ HasPrefix(text, <<"0", "b">>) THEN SubSeq(text, 3, Len(text))
                ELSE text
    IN  [ok  |-> body # <<>> /\ \A i \in 1..Len(body) : DigitOf(body[i]) < base,
         val |-> DigitsVal(body, base)]

\* the base parse_row reads the value in
ValueBase(text) ==
    IF HasPrefix(text, <<"0", "x">>) THEN 16
    ELSE IF HasPrefix(text, <<"0", "b">>) THEN 2
    ELSE 10

\* parse_row of a row of text: the conversions, then as for numbers; row is
\* the row with its numbers, when both convert
ParseRowText(row) ==
    IF Len(row) < 3 \/ row[1] = "#" THEN [res |-> "skip", cmd |-> <<>>, row |-> <<>>]
    ELSE LET length == IntOf(row[2], 10)
             value  == IntOf(row[3], ValueBase(row[3]))
             number == <<row[1], length.val, FromNat(value.val)>> \o SubSeq(row, 4, Len(row))
         IN  IF ~length.ok \/ ~value.ok
             THEN [res |-> "raise", cmd |-> <<>>, row |-> <<>>]
             ELSE [res |-> ParseRow(number).res, cmd |-> ParseRow(number).cmd, row |-> number]

\* the loop of parse_rows over rows of text
RECURSIVE ParseAllText(_, _, _)
ParseAllText(rows, legs, done) ==
    IF rows = <<>> THEN [res |-> "ok", legs |-> legs, rows |-> done]
    ELSE LET r == ParseRowText(Head(rows))
         IN  IF r.res = "cmd"
             THEN ParseAllText(Tail(rows), Append(legs, r.cmd), Append(done, r.row))
             ELSE IF r.res = "skip" THEN ParseAllText(Tail(rows), legs, done)
             ELSE [res |-> r.res, legs |-> legs, rows |-> done]

AfterParseRuns(res, st, legs) == ProcHead(st, legs)

\* parse_rows after its loop: an exception or exit(1) of parse_row has left
\* it; otherwise process_command
AfterParse(res, st, legs) ==
    IF res = "raise" THEN "raised"
    ELSE IF res = "exit" THEN "exited"
    ELSE ProcHead(st, legs)

\* the rows of text a caller may pass: rows that convert, of every kind
\* parse_row queues, and rows that do not (a length or a value that is no
\* number, a base prefix parse_row does not know, an unknown kind, a kind
\* that is not implemented)
TextRows ==
    { <<"ir", <<"2">>, <<"0", "x", "3">> >>,
      <<"dr", <<"2">>, <<"0", "b", "1", "0">> >>,
      <<"irp", <<"1">>, <<"1">> >>,
      <<"ird", <<"1">>, <<"0">> >>,
      <<"rs", <<"0">>, <<"0">> >>,
      <<"dl", <<"0">>, <<"0">> >>,
      <<"id", <<"0">>, <<"0">> >>,
      <<"dr", <<"z">>, <<"1">> >>,
      <<"dr", <<"2">>, <<"2", "z">> >>,
      <<"ir", <<"2">>, <<"0", "q", "1">> >>,
      <<"xx", <<"2">>, <<"1">> >>,
      <<"drc", <<"2">>, <<"1">> >> }

TextBatches == SeqsUpTo(TextRows, MaxLegs) \ {<<>>}

ParseRowsText ==
    \E rows \in TextBatches :
        LET parsed == ParseAllText(rows, <<>>, <<>>)
        IN  /\ pc = "parse"
            /\ jtag_legs' = parsed.legs
            /\ cur_leg' = <<>>
            /\ jtag_results' = <<>>
            /\ pc' = AfterParse(parsed.res, state, parsed.legs)
            /\ batch' = parsed.rows
            /\ given' = rows
            /\ start_state' = state
            /\ cur_idx' = 0
            /\ pin_log' = <<>>
            /\ exec_log' = <<>>
            /\ sampled' = <<>>
            /\ samples' = <<>>
            /\ scan_kind' = ""
            /\ UNCHANGED <<state, tdo_vect, readout, do_pause, last_ir_val, readdata>>
            /\ UNCHANGED <<tap, tdo_pin, tdo_pat>>
            /\ UNCHANGED <<devices, acc, prev_acc, tms_reset_num, xvc>>

\* a chain of one device, driven by access() and by batches of text
InitParse == Constructed /\ devices = <<DeviceA>> /\ XvcConstructed("zero")

NextParse == AccessCall \/ AccessReturn \/ ParseRowsBegin \/ ParseRowsText \/ jtag_step

SpecParse == InitParse /\ [][NextParse]_vars

----------------------------------------------------------------------------
\* The XVC server (xvcpi.py).  A byte is a number in 0..255 and a buffer a
\* sequence of bytes; the 32-bit integers of struct.unpack('<I', ...) are
\* sequences of 32 bits, least significant first.

MaxShiftBits == 40  \* bits of a shift request made of handle_shift directly

Min(a, b) == IF a < b THEN a ELSE b

\* the bits of a byte, least significant first
ByteBits(b) == [i \in 1..8 |-> (b \div Pow2(i - 1)) % 2]

\* the byte of eight bits
BitsByte(bits) ==
    bits[1] + 2 * bits[2] + 4 * bits[3] + 8 * bits[4]
    + 16 * bits[5] + 32 * bits[6] + 64 * bits[7] + 128 * bits[8]

RECURSIVE UnpackBE(_)
UnpackBE(bytes) ==
    IF bytes = <<>> THEN <<>> ELSE UnpackBE(Tail(bytes)) \o ByteBits(Head(bytes))

\* struct.unpack('<I', bytes)[0]
RECURSIVE UnpackLE(_)
UnpackLE(bytes) ==
    IF bytes = <<>> THEN <<>> ELSE ByteBits(Head(bytes)) \o UnpackLE(Tail(bytes))

\* struct.pack('<I', v)
PackLE(v) == [k \in 1..4 |-> BitsByte(SubSeq(v, 8 * (k - 1) + 1, 8 * k))]

\* buffer[a:b]
Slice(buffer, a, b) == SubSeq(buffer, a + 1, Min(b, Len(buffer)))

\* b'\x00' * n, and bytearray(n)
ZeroBytes(n) == [k \in 1..n |-> 0]

StoreFirst(result, a, bytes) ==
    [k \in 1..Len(result) |-> IF k <= Len(bytes) THEN bytes[k] ELSE result[k]]

\* result[a:a + len(bytes)] = bytes
Store(result, a, bytes) ==
    [k \in 1..Len(result) |->
        IF k > a /\ k <= a + Len(bytes) THEN bytes[k - a] ELSE result[k]]

NumBytesFloor(length) == length \div 8

\* (length + 7) // 8
NumBytes(length) == (length + 7) \div 8

\* gpio_write(tck, tms, tdi): the levels written and the event recorded
Levels(tck, tms, tdi) == [tck |-> tck, tms |-> tms, tdi |-> tdi]
Written(tck, tms, tdi) == <<"w", tck, tms, tdi>>

\* (variant of GpioWrite: the levels of tms and tdi exchanged)
GpioWriteSwapped(g, p, tck, tms, tdi) ==
    [tck |-> IF g["tck"] = "open" THEN tck ELSE p.tck,
     tms |-> IF g["tck"] = "open" /\ g["tms"] = "open" THEN tdi ELSE p.tms,
     tdi |-> IF g["tck"] = "open" /\ g["tms"] = "open" /\ g["tdi"] = "open"
             THEN tms ELSE p.tdi]

\* gpio_write on devices g with the pins at levels p: tck, tms and tdi are
\* assigned in this order, and the first device that is not open raises,
\* which leaves the later pins as they were (the exception is caught in
\* gpio_write and logged)
GpioWrite(g, p, tck, tms, tdi) ==
    [tck |-> IF g["tck"] = "open" THEN tck ELSE p.tck,
     tms |-> IF g["tck"] = "open" /\ g["tms"] = "open" THEN tms ELSE p.tms,
     tdi |-> IF g["tck"] = "open" /\ g["tms"] = "open" /\ g["tdi"] = "open"
             THEN tdi ELSE p.tdi]

\* the event recorded for it: the write, or the error gpio_write logs
WriteEvent(g, tck, tms, tdi) ==
    IF g["tck"] = "open" /\ g["tms"] = "open" /\ g["tdi"] = "open"
    THEN Written(tck, tms, tdi)
    ELSE <<"error", tck, tms, tdi>>

\* gpio_read(): what the target drives, given the levels on the pins and
\* what it has driven so far; a "free" target drives any stream of period
\* TdoPeriod
TdoLevels(mode, tdi, pat) ==
    IF mode = "zero" THEN {[bit |-> 0, pat |-> pat]}
    ELSE IF mode = "loop" THEN {[bit |-> tdi, pat |-> pat]}
    ELSE IF Len(pat) < TdoPeriod
         THEN {[bit |-> b, pat |-> Append(pat, b)] : b \in Bit}
         ELSE {[bit |-> Head(pat), pat |-> Append(Tail(pat), Head(pat))]}

\* gpio_read() on devices g: reading a tdo device that is not open raises,
\* and gpio_read returns 0
GpioRead(g, mode, tdi, pat) ==
    IF g["tdo"] = "open" THEN TdoLevels(mode, tdi, pat)
    ELSE {[bit |-> 0, pat |-> pat]}

\* tdo_data |= (tdo_bit << i)
OrBit(v, i, bit) == [k \in 1..Len(v) |-> IF k = i + 1 /\ bit = 1 THEN 1 ELSE v[k]]

\* handle_shift up to its loop: the arguments, the locals and the write
\* that precedes the transfer; log is the record of pin events the write
\* is added to
ShiftEntry(length, buffer, direct, log) ==
    /\ sh' = [active |-> TRUE, direct |-> direct,
              length |-> length, buffer |-> buffer,
              num_bytes |-> NumBytes(length),
              result |-> ZeroBytes(NumBytes(length)),
              bytes_left |-> NumBytes(length), bits_left |-> length,
              byte_index |-> 0,
              chunk_bits |-> 0, chunk_bytes |-> 0,
              tms |-> <<>>, tdi |-> <<>>, tdo |-> <<>>, i |-> 0]
    /\ pins' = GpioWrite(gpio, pins, 0, 1, 1)
    /\ xlog' = Append(log, WriteEvent(gpio, 0, 1, 1))
    /\ tpat' = <<>>
    /\ xpc' = "shift_loop"

\* the head of the loop of handle_shift: a chunk of 32 bits, or the rest,
\* unpacked and handed to gpio_transfer; after the loop, the closing write
ShiftLoop ==
    /\ xpc = "shift_loop"
    /\ IF sh.bytes_left > 0
       THEN LET full  == sh.bytes_left >= 4 /\ sh.bits_left >= 32
                bytes == IF full THEN 4 ELSE sh.bytes_left
                bits  == IF full THEN 32 ELSE sh.bits_left
                tmsb  == Slice(sh.buffer, sh.byte_index, sh.byte_index + bytes)
                tdib  == Slice(sh.buffer, sh.byte_index + sh.num_bytes,
                               sh.byte_index + sh.num_bytes + bytes)
            IN  /\ sh' = [sh EXCEPT !.chunk_bits = bits, !.chunk_bytes = bytes,
                                    !.tms = UnpackLE(tmsb \o ZeroBytes(4 - Len(tmsb))),
                                    !.tdi = UnpackLE(tdib \o ZeroBytes(4 - Len(tdib))),
                                    !.tdo = UnpackLE(ZeroBytes(4)),
                                    !.i = 0]
                /\ xpc' = "transfer"
                /\ UNCHANGED <<pins, xlog>>
       ELSE /\ pins' = GpioWrite(gpio, pins, 0, 1, 0)
            /\ xlog' = Append(xlog, WriteEvent(gpio, 0, 1, 0))
            /\ xpc' = "shift_ret"
            /\ UNCHANGED sh
    /\ UNCHANGED <<running, jtag_delay, gpio, server_socket, rc, conn, want, rdata, rcont>>
    /\ UNCHANGED <<tmode, tpat, stream, hangup>>
    /\ UNCHANGED <<pos, replies, sent0, cause, nrecv, timed, clients>>
    /\ UNCHANGED jtag

\* (variant of ClockPhases: no write with the clock low before the edge)
ClockPhasesNoSetup(tms_bit, tdi_bit) ==
    << <<1, tms_bit, tdi_bit>>, <<1, tms_bit, tdi_bit>>, <<0, tms_bit, tdi_bit>> >>

\* the three gpio_write calls of one turn of the loop of gpio_transfer; TDO
\* is read between the second and the third
ClockPhases(tms_bit, tdi_bit) ==
    << <<0, tms_bit, tdi_bit>>, <<1, tms_bit, tdi_bit>>, <<0, tms_bit, tdi_bit>> >>

\* one turn of the loop of gpio_transfer
TransferBit ==
    /\ xpc = "transfer"
    /\ sh.i < sh.chunk_bits
    /\ LET tms_bit == sh.tms[sh.i + 1]
           tdi_bit == sh.tdi[sh.i + 1]
           w       == ClockPhases(tms_bit, tdi_bit)
           low     == GpioWrite(gpio, pins, w[1][1], w[1][2], w[1][3])
           high    == GpioWrite(gpio, low, w[2][1], w[2][2], w[2][3])
           after   == GpioWrite(gpio, high, w[3][1], w[3][2], w[3][3])
       IN  \E t \in GpioRead(gpio, tmode, high.tdi, tpat) :
              /\ pins' = after
              /\ xlog' = xlog \o << WriteEvent(gpio, w[1][1], w[1][2], w[1][3]),
                                    WriteEvent(gpio, w[2][1], w[2][2], w[2][3]),
                                    <<"r", t.bit>>,
                                    WriteEvent(gpio, w[3][1], w[3][2], w[3][3]) >>
              /\ tpat' = t.pat
              /\ sh' = [sh EXCEPT !.tdo = OrBit(sh.tdo, sh.i, t.bit), !.i = sh.i + 1]
    /\ UNCHANGED <<running, jtag_delay, gpio, server_socket, xpc, rc, conn, want, rdata, rcont>>
    /\ UNCHANGED <<tmode, stream, hangup>>
    /\ UNCHANGED <<pos, replies, sent0, cause, nrecv, timed, clients>>
    /\ UNCHANGED jtag

\* gpio_transfer returns: the chunk's TDO bytes are stored in the result
TransferEnd ==
    /\ xpc = "transfer"
    /\ sh.i = sh.chunk_bits
    /\ LET full == sh.chunk_bits = 32
       IN  sh' = [sh EXCEPT
                    !.result = Store(sh.result, sh.byte_index,
                                     SubSeq(PackLE(sh.tdo), 1, sh.chunk_bytes)),
                    !.bytes_left = IF full THEN sh.bytes_left - 4 ELSE 0,
                    !.bits_left = IF full THEN sh.bits_left - 32 ELSE sh.bits_left,
                    !.byte_index = IF full THEN sh.byte_index + 4 ELSE sh.byte_index]
    /\ xpc' = "shift_loop"
    /\ UNCHANGED <<running, jtag_delay, gpio, server_socket, rc, conn, want, rdata, rcont>>
    /\ UNCHANGED world
    /\ UNCHANGED seen
    /\ UNCHANGED jtag

\* init_gpio: the devices are opened in the order tdo, tdi, tck, tms; the
\* first k are opened and, when k < 4, opening the next one raises
GpioOrder == <<"tdo", "tdi", "tck", "tms">>

InitGpio(k) ==
    /\ gpio' = [d \in {"tdo", "tdi", "tck", "tms"} |->
                  IF \E j \in 1..k : GpioOrder[j] = d THEN "open" ELSE "none"]
    /\ IF k = 4
       THEN pins' = Levels(0, 1, 0) /\ xlog' = Append(xlog, Written(0, 1, 0))
       ELSE UNCHANGED <<pins, xlog>>

\* the script that drives a server object directly, as test_xvc_protocol
\* does: init_gpio, then calls of handle_shift
DirectInitGpio ==
    /\ xpc = "new"
    /\ \E k \in 0..4 :
          /\ InitGpio(k)
          /\ xpc' = IF k = 4 THEN "called" ELSE "init_failed"
    /\ UNCHANGED <<running, jtag_delay, server_socket, rc, conn, want, rdata, rcont, sh>>
    /\ UNCHANGED <<tmode, tpat, stream, hangup>>
    /\ UNCHANGED <<pos, replies, sent0, cause, nrecv, timed, clients>>
    /\ UNCHANGED jtag

\* buffers of n bytes repeating a pattern
Fill(pattern, n) == [k \in 1..n |-> pattern[((k - 1) % Len(pattern)) + 1]]

TmsPatterns == {<<85>>, <<255, 1>>}
TdiPatterns == {<<170>>, <<255>>, <<128, 1, 0>>}

DirectShift ==
    /\ xpc = "called"
    /\ \E length \in 0..MaxShiftBits, tp \in TmsPatterns, dp \in TdiPatterns :
          ShiftEntry(length,
                     Fill(tp, NumBytes(length)) \o Fill(dp, NumBytes(length)),
                     TRUE, <<>>)
    /\ replies' = <<>>
    /\ UNCHANGED <<running, jtag_delay, gpio, server_socket, rc, conn, want, rdata, rcont>>
    /\ UNCHANGED <<tmode, stream, hangup>>
    /\ UNCHANGED <<pos, sent0, cause, nrecv, timed, clients>>
    /\ UNCHANGED jtag

\* handle_shift returns bytes(result) to the script
DirectShiftReturn ==
    /\ xpc = "shift_ret"
    /\ sh.direct
    /\ replies' = <<sh.result>>
    /\ xpc' = "called"
    /\ UNCHANGED <<running, jtag_delay, gpio, server_socket, rc, conn, want, rdata, rcont, sh>>
    /\ UNCHANGED world
    /\ UNCHANGED <<pos, xlog, sent0, cause, nrecv, timed, clients>>
    /\ UNCHANGED jtag

\* a script that calls handle_shift on a server whose init_gpio has not been
\* called, or has failed: some of the devices are not open
MaxFaultBits == 10  \* bits of a shift request made of such a server

FaultyShift ==
    /\ xpc \in {"new", "init_failed"}
    /\ \E length \in 0..MaxFaultBits, tp \in TmsPatterns, dp \in TdiPatterns :
          ShiftEntry(length,
                     Fill(tp, NumBytes(length)) \o Fill(dp, NumBytes(length)),
                     TRUE, <<>>)
    /\ replies' = <<>>
    /\ UNCHANGED <<running, jtag_delay, gpio, server_socket, rc, conn, want, rdata, rcont>>
    /\ UNCHANGED <<tmode, stream, hangup>>
    /\ UNCHANGED <<pos, sent0, cause, nrecv, timed, clients>>
    /\ UNCHANGED jtag

InitShift == Constructed /\ devices = <<>> /\ \E m \in {"loop", "free"} : XvcConstructed(m)

NextShift ==
    \/ DirectInitGpio
    \/ DirectShift
    \/ ShiftLoop
    \/ TransferBit
    \/ TransferEnd
    \/ DirectShiftReturn

SpecShift == InitShift /\ [][NextShift]_vars

NextFault ==
    \/ DirectInitGpio
    \/ FaultyShift
    \/ ShiftLoop
    \/ TransferBit
    \/ TransferEnd
    \/ DirectShiftReturn

SpecFault == InitShift /\ [][NextFault]_vars

----------------------------------------------------------------------------
\* start_server: the accept loop, handle_client and safe_read, with the
\* clients and the signals of the environment.

MaxCmds == 2     \* commands in the byte stream of one client
MaxClients == 2  \* clients that connect before the model stops accepting

\* XVC_VERSION.encode('ascii'): "xvcServer_v1.0:2048\n"
XvcVersion ==
    <<120, 118, 99, 83, 101, 114, 118, 101, 114, 95,
      118, 49, 46, 48, 58, 50, 48, 52, 56, 10>>

\* (variant of PrefixSe: the second branch compares with b'st')
PrefixSt == <<115, 116>>

\* the two-byte prefixes b'ge', b'se', b'sh'
PrefixGe == <<103, 101>>
PrefixSe == <<115, 101>>
PrefixSh == <<115, 104>>

\* what a client may send: b"getinfo:", b"settck:" + period,
\* b"shift:" + u32(nbits) + TMS + TDI, two bytes that are no prefix, and
\* a shift that announces 16385 bits
Commands ==
    { <<103, 101, 116, 105, 110, 102, 111, 58>>,
      <<115, 101, 116, 116, 99, 107, 58, 232, 3, 0, 0>>,
      <<115, 104, 105, 102, 116, 58, 0, 0, 0, 0>>,
      <<115, 104, 105, 102, 116, 58, 3, 0, 0, 0, 2, 5>>,
      <<115, 104, 105, 102, 116, 58, 9, 0, 0, 0, 85, 1, 170, 1>>,
      <<120, 120>>,
      <<115, 104, 105, 102, 116, 58, 1, 64, 0, 0>> }

RECURSIVE Streams(_)
Streams(n) ==
    IF n = 0 THEN {<<>>}
    ELSE Streams(n - 1) \cup {s \o c : s \in Streams(n - 1), c \in Commands}

\* buffer_size > 4096, for the 32 bits of the length
TooLarge(length) ==
    \/ \E k \in 16..32 : length[k] = 1
    \/ NumBytes(ToNat(SubSeq(length, 1, 15))) * 2 > 4096

\* cleanup(): running = False, server_socket.close(), cleanup_gpio()
Cleanup(socket) ==
    /\ running' = FALSE
    /\ server_socket' = IF socket = "none" THEN "none" ELSE "closed"
    /\ gpio' = [d \in DOMAIN gpio |-> IF gpio[d] = "open" THEN "closed" ELSE gpio[d]]

\* safe_read(conn, n) is entered; cont names the statement that gets its
\* result
SafeRead(n, cont) ==
    /\ want' = n
    /\ rdata' = <<>>
    /\ rcont' = cont
    /\ nrecv' = 0
    /\ xpc' = "read"

BreakLeak(why) ==
    /\ conn' = conn
    /\ cause' = why
    /\ xpc' = "loop"
    /\ want' = 0 /\ rdata' = <<>> /\ rcont' = "" /\ nrecv' = 0
    /\ sh' = NoShift

\* handle_client is left by break, or by an exception: conn.close() in its
\* finally clause, and back to the loop of start_server; the locals of
\* handle_client are gone
Break(why) ==
    /\ conn' = "closed"
    /\ cause' = why
    /\ xpc' = "loop"
    /\ want' = 0 /\ rdata' = <<>> /\ rcont' = "" /\ nrecv' = 0
    /\ sh' = NoShift

\* conn.sendall(response): the reply is sent, or the call raises
Send(response) ==
    \/ /\ replies' = Append(replies, response)
       /\ xpc' = "client_loop"
       /\ UNCHANGED <<conn, cause, want, rdata, rcont, nrecv, sh>>
    \/ /\ Break("send_error")
       /\ UNCHANGED replies

ReadNeverStops(run) == FALSE

\* if not self.running: return None
ReadStops(run) == ~run

RecvAll(length, have) == length

\* conn.recv(length - len(data))
RecvMax(length, have) == length - have

PeriodHead(remaining) == SubSeq(remaining, 1, 4)

\* period_data = remaining[5:]
PeriodData(remaining) == SubSeq(remaining, 6, Len(remaining))

\* start_server up to the signal handlers: init_gpio, and return 1 when
\* it fails
StartServer ==
    /\ xpc = "new"
    /\ \E k \in 0..4 :
          /\ InitGpio(k)
          /\ IF k = 4 THEN xpc' = "setup" /\ rc' = rc
                      ELSE xpc' = "returned" /\ rc' = 1
    /\ UNCHANGED <<running, jtag_delay, server_socket, conn, want, rdata, rcont, sh>>
    /\ UNCHANGED <<tmode, tpat, stream, hangup>>
    /\ UNCHANGED <<pos, replies, sent0, cause, nrecv, timed, clients>>
    /\ UNCHANGED jtag

\* the socket is created, bound and made to listen; a failure is caught by
\* the except clause, which returns 1 after cleanup()
SocketSetup ==
    /\ xpc = "setup"
    /\ \/ /\ server_socket' = "listening"
          /\ xpc' = "loop"
          /\ UNCHANGED <<running, gpio, rc>>
       \/ \E made \in {"none", "open"} :
             /\ Cleanup(made)
             /\ rc' = 1
             /\ xpc' = "returned"
    /\ UNCHANGED <<jtag_delay, conn, want, rdata, rcont, sh>>
    /\ UNCHANGED world
    /\ UNCHANGED seen
    /\ UNCHANGED jtag

\* while self.running, in start_server; after the loop, cleanup() and
\* return 0
LoopHead ==
    /\ xpc = "loop"
    /\ IF running
       THEN xpc' = "accept" /\ UNCHANGED <<running, gpio, server_socket, rc>>
       ELSE Cleanup(server_socket) /\ rc' = 0 /\ xpc' = "returned"
    /\ UNCHANGED <<jtag_delay, conn, want, rdata, rcont, sh>>
    /\ UNCHANGED world
    /\ UNCHANGED seen
    /\ UNCHANGED jtag

\* server_socket.accept(): a timeout, an error (break, cleanup(), return
\* 0), or a client, whose byte stream and whose closing the connection
\* after it are chosen here; handle_client is entered
AcceptFrom(streams) ==
    /\ xpc = "accept"
    /\ \/ /\ xpc' = "loop"
          /\ timed' = TRUE
          /\ UNCHANGED <<running, gpio, server_socket, rc, conn>>
          /\ UNCHANGED <<stream, hangup>>
          /\ UNCHANGED <<pos, replies, xlog, sent0, cause, nrecv, clients>>
       \/ /\ Cleanup(server_socket)
          /\ rc' = 0
          /\ xpc' = "returned"
          /\ UNCHANGED conn
          /\ UNCHANGED <<stream, hangup>>
          /\ UNCHANGED seen
       \/ /\ clients < MaxClients
          /\ \E s \in streams, h \in BOOLEAN :
                stream' = s /\ hangup' = h
          /\ conn' = "open"
          /\ xpc' = "client_loop"
          /\ clients' = clients + 1
          /\ pos' = 0 /\ replies' = <<>> /\ xlog' = <<>> /\ sent0' = 0
          /\ cause' = "" /\ nrecv' = 0 /\ timed' = FALSE
          /\ UNCHANGED <<running, gpio, server_socket, rc>>
    /\ UNCHANGED <<jtag_delay, want, rdata, rcont, sh>>
    /\ UNCHANGED <<pins, tmode, tpat>>
    /\ UNCHANGED jtag

Accept == AcceptFrom(Streams(MaxCmds))

\* while self.running, in handle_client: the next command starts with
\* safe_read(conn, 2)
ClientLoop ==
    /\ xpc = "client_loop"
    /\ IF running
       THEN /\ SafeRead(2, "prefix")
            /\ xlog' = <<>>
            /\ sent0' = Len(replies)
            /\ UNCHANGED <<conn, cause, sh>>
       ELSE /\ Break("stopped")
            /\ UNCHANGED <<xlog, sent0>>
    /\ UNCHANGED <<running, jtag_delay, gpio, server_socket, rc>>
    /\ UNCHANGED world
    /\ UNCHANGED <<pos, replies, timed, clients>>
    /\ UNCHANGED jtag

\* the head of the loop of safe_read, while bytes are missing
ReadHead ==
    /\ xpc = "read"
    /\ Len(rdata) < want
    /\ IF ReadStops(running)
       THEN Break("stopped")
       ELSE xpc' = "recv" /\ UNCHANGED <<conn, cause, want, rdata, rcont, nrecv, sh>>
    /\ UNCHANGED <<running, jtag_delay, gpio, server_socket, rc>>
    /\ UNCHANGED world
    /\ UNCHANGED <<pos, replies, xlog, sent0, timed, clients>>
    /\ UNCHANGED jtag

\* conn.recv: some of the bytes asked for, a timeout, the peer's closing,
\* or an error
Recv ==
    /\ xpc = "recv"
    /\ \/ \E n \in 1..Min(RecvMax(want, Len(rdata)), Len(stream) - pos) :
             /\ rdata' = rdata \o SubSeq(stream, pos + 1, pos + n)
             /\ pos' = pos + n
             /\ nrecv' = nrecv + 1
             /\ xpc' = "read"
             /\ UNCHANGED <<conn, cause, want, rcont, sh, timed>>
       \/ /\ timed' = TRUE
          /\ xpc' = "read"
          /\ UNCHANGED <<conn, cause, want, rdata, rcont, sh, pos, nrecv>>
       \/ /\ pos = Len(stream)
          /\ hangup
          /\ Break("eof")
          /\ UNCHANGED <<pos, timed>>
       \/ /\ Break("recv_error")
          /\ UNCHANGED <<pos, timed>>
    /\ UNCHANGED <<running, jtag_delay, gpio, server_socket, rc>>
    /\ UNCHANGED world
    /\ UNCHANGED <<replies, xlog, sent0, clients>>
    /\ UNCHANGED jtag

\* safe_read has returned its data to the statement named by rcont
ReadDone(cont) == xpc = "read" /\ Len(rdata) >= want /\ rcont = cont

\* the dispatch on cmd_prefix
OnPrefix ==
    /\ ReadDone("prefix")
    /\ IF rdata = PrefixGe THEN SafeRead(6, "ge") /\ UNCHANGED <<conn, cause, sh>>
       ELSE IF rdata = PrefixSe THEN SafeRead(9, "se") /\ UNCHANGED <<conn, cause, sh>>
       ELSE IF rdata = PrefixSh THEN SafeRead(4, "sh") /\ UNCHANGED <<conn, cause, sh>>
       ELSE Break("prefix")
    /\ UNCHANGED <<running, jtag_delay, gpio, server_socket, rc>>
    /\ UNCHANGED world
    /\ UNCHANGED <<pos, replies, xlog, sent0, timed, clients>>
    /\ UNCHANGED jtag

\* getinfo: handle_getinfo and sendall
OnGetinfo ==
    /\ ReadDone("ge")
    /\ Send(XvcVersion)
    /\ UNCHANGED <<running, jtag_delay, gpio, server_socket, rc>>
    /\ UNCHANGED world
    /\ UNCHANGED <<pos, xlog, sent0, timed, clients>>
    /\ UNCHANGED jtag

\* settck: handle_settck and sendall
OnSettck ==
    /\ ReadDone("se")
    /\ Send(PeriodData(rdata))
    /\ UNCHANGED <<running, jtag_delay, gpio, server_socket, rc>>
    /\ UNCHANGED world
    /\ UNCHANGED <<pos, xlog, sent0, timed, clients>>
    /\ UNCHANGED jtag

\* shift: b'ift:' has been read, the length is read next
OnShiftTag ==
    /\ ReadDone("sh")
    /\ SafeRead(4, "length")
    /\ UNCHANGED <<running, jtag_delay, gpio, server_socket, rc, conn, sh>>
    /\ UNCHANGED world
    /\ UNCHANGED <<pos, replies, xlog, sent0, cause, timed, clients>>
    /\ UNCHANGED jtag

\* shift: the length is unpacked and the size of the buffer checked, the
\* buffer is read next
OnShiftLength ==
    /\ ReadDone("length")
    /\ LET length == UnpackLE(rdata)
       IN  IF TooLarge(length)
           THEN Break("size")
           ELSE /\ SafeRead(NumBytes(ToNat(length)) * 2, "buffer")
                /\ sh' = [active |-> FALSE, length |-> ToNat(length)]
                /\ UNCHANGED <<conn, cause>>
    /\ UNCHANGED <<running, jtag_delay, gpio, server_socket, rc>>
    /\ UNCHANGED world
    /\ UNCHANGED <<pos, replies, xlog, sent0, timed, clients>>
    /\ UNCHANGED jtag

\* shift: if not buffer: break; otherwise handle_shift is entered
OnShiftBuffer ==
    /\ ReadDone("buffer")
    /\ IF rdata = <<>>
       THEN /\ Break("empty")
            /\ UNCHANGED <<pins, tpat, xlog>>
       ELSE /\ ShiftEntry(sh.length, rdata, FALSE, xlog)
            /\ UNCHANGED <<conn, cause, want, rdata, rcont, nrecv>>
    /\ UNCHANGED <<running, jtag_delay, gpio, server_socket, rc>>
    /\ UNCHANGED <<tmode, stream, hangup>>
    /\ UNCHANGED <<pos, replies, sent0, timed, clients>>
    /\ UNCHANGED jtag

\* shift: handle_shift has returned its result, sendall
ShiftReply ==
    /\ xpc = "shift_ret"
    /\ ~sh.direct
    /\ Send(sh.result)
    /\ UNCHANGED <<running, jtag_delay, gpio, server_socket, rc>>
    /\ UNCHANGED world
    /\ UNCHANGED <<pos, xlog, sent0, timed, clients>>
    /\ UNCHANGED jtag

\* signal_handler, once start_server has installed it
Signal ==
    /\ xpc \notin {"new", "returned"}
    /\ running
    /\ running' = FALSE
    /\ UNCHANGED <<jtag_delay, gpio, server_socket, xpc, rc, conn, want, rdata, rcont, sh>>
    /\ UNCHANGED world
    /\ UNCHANGED seen
    /\ UNCHANGED jtag

\* every step of the server itself, but accept
Serving ==
    \/ StartServer
    \/ SocketSetup
    \/ LoopHead
    \/ ClientLoop
    \/ ReadHead
    \/ Recv
    \/ OnPrefix
    \/ OnGetinfo
    \/ OnSettck
    \/ OnShiftTag
    \/ OnShiftLength
    \/ OnShiftBuffer
    \/ ShiftLoop
    \/ TransferBit
    \/ TransferEnd
    \/ ShiftReply

InitServer == Constructed /\ devices = <<>> /\ \E m \in {"zero", "loop"} : XvcConstructed(m)

ServerStep == Serving \/ Accept

NextServer == ServerStep \/ Signal

SpecServer == InitServer /\ [][NextServer]_vars

\* The server is one thread that goes on with its next statement, and
\* accept and recv return after a second at the latest.
\* Its clients send one command at most.
AcceptShort == AcceptFrom(Streams(1))

FairStep == Serving \/ AcceptShort

FairSpecServer == InitServer /\ [][FairStep \/ Signal]_vars /\ WF_vars(FairStep)

\* Clients that send one command, spelled as the protocol has it or with
\* other bytes after its first two: b"getinfo:" and b"getinfo;",
\* b"settck:" and b"setclk:" with a period, b"shift:" and b"shape:" with
\* three bits, and b"xx".
SpelledCommands ==
    { <<103, 101, 116, 105, 110, 102, 111, 58>>,
      <<103, 101, 116, 105, 110, 102, 111, 59>>,
      <<115, 101, 116, 116, 99, 107, 58, 232, 3, 0, 0>>,
      <<115, 101, 116, 99, 108, 107, 58, 232, 3, 0, 0>>,
      <<115, 104, 105, 102, 116, 58, 3, 0, 0, 0, 2, 5>>,
      <<115, 104, 97, 112, 101, 58, 3, 0, 0, 0, 2, 5>>,
      <<120, 120>> }

AcceptSpelled == AcceptFrom(SpelledCommands)

NextSpell == Serving \/ AcceptSpelled \/ Signal

SpecSpell == InitServer /\ [][NextSpell]_vars

----------------------------------------------------------------------------
\* Properties of the walker, checked under Spec.

\* the legs parse_rows queued for the current batch
BatchLegs == ParseAll(batch, <<>>).legs

ScanPositions == {i \in 1..Len(BatchLegs) : BatchLegs[i][1] \in ScanKinds}

\* parse_rows has run a batch and returned
Returned == pc = "idle" /\ batch # <<>>

\* C1: process_command terminates for every batch of legs, and when it
\* returns no leg is queued, no leg is active and the walker is in
\* TestLogicReset or RunTestIdle.  Stated as: no call of jtag_step raises,
\* every call of jtag_step made by the loops of process_command and
\* jtag_next changes the walker (a call that changes nothing is repeated
\* for ever, the loop conditions reading only the walker), and the state
\* on return is as described.
C1_Terminates ==
    /\ pc # "raised"
    /\ (Stepping => ENABLED <<jtag_step>>_vars)
    /\ (Returned => jtag_legs = <<>> /\ cur_leg = <<>> /\ state \in IdleStates)

\* the loop of jtag_next spins: TEST_LOGIC_RESET with an active leg and an
\* empty queue, where jtag_step does nothing
C1_Hang ==
    /\ pc = "loop1"
    /\ state = "TEST_LOGIC_RESET"
    /\ cur_leg # <<>>
    /\ jtag_legs = <<>>
    /\ ~ ENABLED <<jtag_step>>_vars

\* sum of bits[i] * 2^(i-1) for i from i to Len(bits)
RECURSIVE WeightedSum(_, _)
WeightedSum(bits, i) ==
    IF i > Len(bits) THEN 0
    ELSE bits[i] * Pow2(i - 1) + WeightedSum(bits, i + 1)

\* C2: for a scan leg of K bits the integer appended to jtag_results is the
\* sum over i = 0..K-1 of tdo_i * 2^i, tdo_i being the TDO level read by the
\* i-th Shift call before that call's clock edges: the first bit sampled is
\* bit 0 of the result.
C2_TdoOrder ==
    /\ Len(jtag_results) = Len(sampled)
    /\ \A j \in 1..Len(jtag_results) :
          /\ Len(sampled[j].bits) = Len(BatchLegs[sampled[j].leg][2])
          /\ ToNat(jtag_results[j]) = WeightedSum(sampled[j].bits, 1)

\* a two-bit scan whose first sample was 0 and second 1 has produced 2
C2_Witness ==
    \E j \in 1..Len(jtag_results) :
        /\ j <= Len(sampled)
        /\ sampled[j].bits = <<0, 1>>
        /\ ToNat(jtag_results[j]) = 2

\* C3: when parse_rows returns, jtag_results holds exactly one integer for
\* each DR/IR/IRP/IRD leg of the batch, in the order the legs appear in the
\* batch, and every leg was executed exactly once, in FIFO order, all of it
\* after the whole batch had been parsed and queued.
C3_OneResultPerScan ==
    /\ (Returned =>
          /\ exec_log = [i \in 1..Len(BatchLegs) |-> i]
          /\ Len(jtag_results) = Cardinality(ScanPositions)
          /\ Len(sampled) = Len(jtag_results)
          /\ \A j \in 1..Len(sampled) :
                /\ sampled[j].leg \in ScanPositions
                /\ Cardinality({i \in ScanPositions : i < sampled[j].leg}) = j - 1)
    /\ (pc = "parse" => exec_log = <<>> /\ jtag_results = <<>> /\ pin_log = <<>>)

\* a batch of a bare leg, then a scan, has returned: two legs carried out,
\* one result, for the second
C3_Witness ==
    /\ Returned
    /\ Len(BatchLegs) = 2
    /\ ScanPositions = {2}
    /\ Len(jtag_results) = 1
    /\ exec_log = <<1, 2>>

\* the column of the target a scan of the current kind goes down
Column == IF scan_kind \in {"IR", "IRP", "IRD"} THEN "IR" ELSE "DR"

TapName == [SELECT_SCAN |-> "Select", CAPTURE |-> "Capture", SHIFT |-> "Shift",
            EXIT1 |-> "Exit1", PAUSE |-> "Pause", EXIT2 |-> "Exit2",
            UPDATE |-> "Update"]

\* C4: the walker tracks a real IEEE 1149.1 TAP.  With walker and target
\* both starting in Run-Test/Idle and tms_reset_num = 7, after every
\* jtag_step of any batch the 16-state target, clocked once per phy_sync on
\* the TMS presented, is in the state the walker's state stands for:
\* TestLogicReset, RunTestIdle, or the walker's scan state in the DR column
\* for dr legs and in the IR column for ir/irp/ird legs, the shortcut
\* transitions out of Update included.
C4_TracksTap ==
    tap = IF state = "TEST_LOGIC_RESET" THEN "TLR"
          ELSE IF state = "RUN_TEST_IDLE" THEN "RTI"
          ELSE TapName[state] \o Column

\* an IR scan entered by the shortcut out of the Update of an earlier scan
C4_Witness ==
    /\ state = "SELECT_SCAN"
    /\ scan_kind = "IRD"
    /\ Len(sampled) = 1
    /\ tap = "SelectIR"
    /\ tms_reset_num = 7

\* the phy_sync calls, each <<tdi, tms>>, recorded in a run of pin events
CallsOf(events) ==
    [i \in 1..(Len(events) \div 6) |->
        <<events[6 * (i - 1) + 3][2], events[6 * (i - 1) + 4][2]>>]

NewCalls == CallsOf(SubSeq(pin_log', Len(pin_log) + 1, Len(pin_log')))

Popped == cur_leg' = Head(jtag_legs) /\ jtag_legs' = Tail(jtag_legs)

\* C5: the shortcut rule at Update.  With a DR leg at the head of the queue
\* the walker pops it, issues exactly one phy_sync(0,1) and goes to
\* SelectScan; with an IRP or IRD leg it issues exactly two phy_sync(0,1),
\* sets do_pause for IRP, pops it and goes to SelectScan; either way the
\* target goes from Update to the Select state of the next scan without
\* passing Run-Test/Idle.  Otherwise (queue empty, or another kind at its
\* head) it issues one phy_sync(0,0) and goes to RunTestIdle.
C5_ShortcutRule ==
    [][(Stepping /\ state = "UPDATE") =>
         LET head == IF jtag_legs = <<>> THEN "" ELSE jtag_legs[1][1]
         IN  IF head = "DR"
             THEN /\ NewCalls = << <<0, 1>> >>
                  /\ Popped
                  /\ state' = "SELECT_SCAN"
                  /\ tap' = "SelectDR"
                  /\ do_pause' = do_pause
             ELSE IF head \in {"IRP", "IRD"}
             THEN /\ NewCalls = << <<0, 1>>, <<0, 1>> >>
                  /\ Popped
                  /\ state' = "SELECT_SCAN"
                  /\ tap' = "SelectIR"
                  /\ do_pause' = (do_pause \/ head = "IRP")
             ELSE /\ NewCalls = << <<0, 0>> >>
                  /\ state' = "RUN_TEST_IDLE"
                  /\ tap' = "RTI"
                  /\ UNCHANGED <<jtag_legs, cur_leg, do_pause>>]_vars

\* the batch [irp, dr]: the DR scan entered straight out of the Update of
\* the IR scan, the calls since Pause (to Exit2, to Update, to Select-DR)
\* all carrying TMS = 1
C5_Witness ==
    /\ Len(batch) = 2 /\ batch[1][1] = "irp" /\ batch[2][1] = "dr"
    /\ start_state = "RUN_TEST_IDLE"
    /\ state = "SELECT_SCAN" /\ scan_kind = "DR"
    /\ Len(sampled) = 1
    /\ tap = "SelectDR"
    /\ LET calls == CallsOf(pin_log)
           n     == Len(calls)
       IN  n >= 3 /\ \A i \in (n - 2)..n : calls[i][2] = 1

\* the pin writes of a log, the reads of TDO left out
PinWrites(log) == SelectSeq(log, LAMBDA e : e[1] # "tdo")

RECURSIVE Repeat(_, _)
Repeat(seq, n) == IF n = 0 THEN <<>> ELSE seq \o Repeat(seq, n - 1)

\* one clock cycle with TDI = 0 and TMS = 1
ResetCycle == << <<"tck", 0>>, <<"tdi", 0>>, <<"tms", 1>>, <<"tck", 1>>, <<"tck", 0>> >>

\* the batch of reset_fsm: the row "rs, 0, 0", run from RunTestIdle, has
\* returned
ResetDone ==
    /\ Returned
    /\ batch = << <<"rs", 0, <<>> >> >>
    /\ start_state = "RUN_TEST_IDLE"

\* C6 as stated: the batch "rs, 0, 0" run from RunTestIdle produces exactly
\* 7 clock cycles, each (TCK=0, TDI=0, TMS=1), (TCK=1), (TCK=0), and no
\* other pin activity; afterwards the walker is in RunTestIdle and
\* last_ir_val is the cleared sentinel.
C6_AsStated ==
    ResetDone =>
        /\ PinWrites(pin_log) = Repeat(ResetCycle, 7)
        /\ state = "RUN_TEST_IDLE"
        /\ last_ir_val = MinusOne

\* C6, amended: the same pin activity and cleared last_ir_val, the walker
\* being left in TestLogicReset.
C6_ResetScenario ==
    ResetDone =>
        /\ PinWrites(pin_log) = Repeat(ResetCycle, 7)
        /\ state = "TEST_LOGIC_RESET"
        /\ last_ir_val = MinusOne

\* reset_fsm has returned, seven calls of phy_sync made
C6_Witness ==
    /\ ResetDone
    /\ Len(pin_log) = 7 * 6
    /\ state = "TEST_LOGIC_RESET"

----------------------------------------------------------------------------
\* Properties of access(), checked under SpecAccess.

\* an access has been made: acc holds its arguments and locals
Accessed == "device" \in DOMAIN acc

\* bit i (from 0) of the integer v
BitAt(v, i) == IF i + 1 <= Len(v) THEN v[i + 1] ELSE 0

\* the rows of the batch are an IR row then a DR row
IrEmitted == Len(batch) = 2 /\ batch[1][1] = "ir" /\ batch[2][1] = "dr"

DrOnly == Len(batch) = 1 /\ batch[1][1] = "dr"

\* C7: over any sequence of access() calls, an access emits an IR scan if
\* and only if its total_ir_val differs from that of the previous access,
\* the first access always emitting one; so a read of the register the
\* previous read on the same device addressed runs a DR scan alone, and K
\* consecutive reads of one register run one IR scan and K DR scans.
C7_IrCache ==
    acc.active =>
        /\ IrEmitted \/ DrOnly
        /\ IrEmitted <=> (~ ("device" \in DOMAIN prev_acc)
                          \/ acc.total_ir_val # prev_acc.total_ir_val)
        /\ ("device" \in DOMAIN prev_acc
              /\ ~acc.jwrite /\ ~prev_acc.jwrite
              /\ acc.device = prev_acc.device /\ acc.ir_val = prev_acc.ir_val
              => DrOnly)
        /\ (pc = "idle" =>
              /\ Len(sampled) = Len(batch)
              /\ \A j \in 1..Len(sampled) : sampled[j].leg = j)

\* a second read of the same register has run its DR scan, and no IR scan
C7_Witness ==
    /\ acc.active /\ pc = "idle"
    /\ "device" \in DOMAIN prev_acc
    /\ ~acc.jwrite /\ ~prev_acc.jwrite
    /\ acc.device = prev_acc.device /\ acc.ir_val = prev_acc.ir_val
    /\ DrOnly
    /\ Len(sampled) = 1

\* the width of the register the access addresses, from the catalog
Width == (CHOOSE r \in devices[acc.device + 1].regs : r.address = acc.ir_val).width

\* N - 1 - d
Pad == Len(devices) - 1 - acc.device

\* the TDI level of the i-th (from 0) Shift call of the last scan of a
\* finished batch, a scan of n bits: the scan ends with its n Shift calls,
\* the call out of Exit1 and the call out of Update
ShiftedTdi(n, i) ==
    LET calls == CallsOf(pin_log)
    IN  calls[Len(calls) - 1 - n + i][1]

\* C8: chain bit placement.  For a chain of N devices, a device d and a
\* payload p below 2^dr_len, a write shifts the DR value p << (N-1-d) in a
\* DR leg of dr_len + N - 1 bits, a read shifts the value 0 in a leg of the
\* same length, and access returns (raw_tdo >> (N-1-d)) & (2^dr_len - 1),
\* raw_tdo being the result of that DR scan.  Stated bit by bit: bit i of
\* p << k is 0 below k and bit i-k of p from k on; bit i of (r >> k) & mask
\* is bit i+k of r below dr_len and 0 from dr_len on.
C8_BitPlacement ==
    Accessed =>
        LET row == batch[Len(batch)]
            len == Width + Len(devices) - 1
            p   == IF acc.jwrite THEN acc.data ELSE <<>>
            raw == sampled[Len(sampled)].bits
        IN  /\ row[1] = "dr"
            /\ row[2] = len
            /\ \A i \in 0..len :
                  BitAt(row[3], i) = IF i < Pad THEN 0 ELSE BitAt(p, i - Pad)
            /\ (pc = "idle" =>
                  /\ Len(raw) = len
                  /\ \A i \in 0..(len - 1) :
                        ShiftedTdi(len, i) =
                            IF i < Pad THEN 0 ELSE BitAt(p, i - Pad))
            /\ (~acc.active =>
                  \A i \in 0..len :
                      BitAt(acc.returned_data, i) =
                          IF i < Width THEN BitAt(raw, i + Pad) ELSE 0)

\* a read of a two-bit register of device 0 of a chain of two has returned
\* 2, the raw result 5 shifted right by one and masked
C8_Witness ==
    /\ Accessed /\ ~acc.active
    /\ Len(devices) = 2 /\ acc.device = 0 /\ ~acc.jwrite
    /\ Width = 2
    /\ sampled[Len(sampled)].bits = <<1, 0, 1>>
    /\ acc.returned_data = <<0, 1>>

\* the opcode access() gives device i (from 0)
Opcode(i) ==
    IF i = acc.device THEN acc.ir_val
    ELSE (CHOOSE r \in devices[i + 1].regs : r.name = "BYPASS").address

\* the sum of ir_len over the devices of index above i
RECURSIVE IrLenAbove(_)
IrLenAbove(i) ==
    IF i >= Len(devices) - 1 THEN 0
    ELSE devices[i + 2].ir_len + IrLenAbove(i + 1)

\* the sum over the devices i..N-1 of opcode << (ir_len of the devices above)
RECURSIVE IrSum(_)
IrSum(i) ==
    IF i > Len(devices) - 1 THEN 0
    ELSE ToNat(Opcode(i)) * Pow2(IrLenAbove(i)) + IrSum(i + 1)

\* C9: chain IR composition.  total_ir_len is the sum of ir_len over the
\* devices, and total_ir_val the sum over the devices i of
\* opcode_i << (sum of ir_len of the devices of index above i), opcode_i
\* being addr for the device addressed and BYPASS of device i otherwise;
\* an IR row, when emitted, carries that length and value.
C9_IrComposition ==
    Accessed =>
        /\ acc.total_ir_len = IrLenAbove(-1)
        /\ ToNat(acc.total_ir_val) = IrSum(0)
        /\ (IrEmitted => batch[1][2] = acc.total_ir_len /\ batch[1][3] = acc.total_ir_val)

\* device 0 of a chain of two devices of different ir_len addressed: its
\* opcode 1 stands above the one-bit BYPASS of device 1
C9_Witness ==
    /\ acc.active
    /\ devices = <<DeviceA, DeviceB>>
    /\ acc.device = 0
    /\ acc.ir_val = FromNat(1)
    /\ acc.total_ir_len = 3
    /\ ToNat(acc.total_ir_val) = 3
    /\ IrEmitted

\* the scenario: a chain of two, device 0, a 32-bit register, a write of
\* 0xDEADBEEF
TwoDeviceWrite ==
    /\ acc.active
    /\ Len(devices) = 2
    /\ acc.device = 0
    /\ Width = 32
    /\ acc.jwrite
    /\ acc.data = DeadBeef

\* the DR vector of the scenario: 33 bits, bit 0 the bypass bit of device 1,
\* bits 1..32 the data; so in the row handed to parse_rows and in the leg
\* queued from it, a string of 33 characters with bit 0 last
ScenarioDr ==
    LET row == batch[Len(batch)]
    IN  /\ row[1] = "dr" /\ row[2] = 33
        /\ BitAt(row[3], 0) = 0
        /\ \A i \in 1..32 : BitAt(row[3], i) = BitAt(DeadBeef, i - 1)
        /\ BitAt(row[3], 33) = 0
        /\ (jtag_legs # <<>> =>
              LET leg == jtag_legs[Len(jtag_legs)]
              IN  /\ leg[1] = "DR" /\ Len(leg[2]) = 33
                  /\ leg[2][33] = "0"
                  /\ \A i \in 1..32 :
                        leg[2][33 - i] = (IF BitAt(DeadBeef, i - 1) = 1 THEN "1" ELSE "0"))

Bypass1 == (CHOOSE r \in devices[2].regs : r.name = "BYPASS").address

\* C10 as stated: in the two-device write scenario the DR vector has 33
\* bits, bit 0 the bypass bit of device 1 and bits 1..32 the data, and the
\* IR vector has the opcode of device 0 in its low bits and BYPASS of
\* device 1 in its high bits.
C10_AsStated ==
    TwoDeviceWrite =>
        /\ ScenarioDr
        /\ \A i \in 0..(devices[1].ir_len - 1) :
              BitAt(acc.total_ir_val, i) = BitAt(acc.ir_val, i)
        /\ \A i \in 0..(devices[2].ir_len - 1) :
              BitAt(acc.total_ir_val, devices[1].ir_len + i) = BitAt(Bypass1, i)

\* C10, amended: the same DR vector, and the IR vector has BYPASS of
\* device 1 in its low bits and the opcode of device 0 in its high bits.
C10_TwoDeviceWrite ==
    TwoDeviceWrite =>
        /\ ScenarioDr
        /\ acc.total_ir_len = devices[1].ir_len + devices[2].ir_len
        /\ \A i \in 0..(devices[2].ir_len - 1) :
              BitAt(acc.total_ir_val, i) = BitAt(Bypass1, i)
        /\ \A i \in 0..(devices[1].ir_len - 1) :
              BitAt(acc.total_ir_val, devices[2].ir_len + i) = BitAt(acc.ir_val, i)
        /\ (IrEmitted => batch[1][2] = acc.total_ir_len /\ batch[1][3] = acc.total_ir_val)

\* the scenario's batch, an IR scan and the DR scan, has been run
C10_Witness ==
    /\ TwoDeviceWrite
    /\ IrEmitted
    /\ pc = "idle"
    /\ Len(sampled) = 2

----------------------------------------------------------------------------
\* Properties of handle_shift, checked under SpecShift.

\* ceil(n / 8)
Ceil8(n) == IF n % 8 = 0 THEN n \div 8 ELSE (n \div 8) + 1

\* handle_shift has returned to its caller
ShiftReturned == xpc = "called" /\ sh.active

\* C11: handle_shift(nbits, buffer) returns exactly ceil(nbits/8) bytes for
\* every nbits >= 0, and every bit of the result at a position >= nbits
\* (bits counted from the least significant bit of byte 0) is 0.
C11_ResultSize ==
    ShiftReturned =>
        LET r == replies[1]
        IN  /\ Len(r) = Ceil8(sh.length)
            /\ \A k \in 1..(8 * Len(r)) : k > sh.length => UnpackLE(r)[k] = 0

\* a shift of 35 bits (one chunk of 32 bits and a rest of 3) whose last
\* byte holds TDO bits that are 1
C11_Witness ==
    /\ ShiftReturned
    /\ sh.length = 35
    /\ Len(replies[1]) = 5
    /\ replies[1][5] = 7

\* bit i of a buffer, counted from the least significant bit of its byte 0
BufferBit(buffer, i) == (buffer[(i \div 8) + 1] \div Pow2(i % 8)) % 2

\* the TMS and the TDI bytes of a request of n bits
TmsBytes(buffer, n) == SubSeq(buffer, 1, Ceil8(n))
TdiBytes(buffer, n) == SubSeq(buffer, Ceil8(n) + 1, 2 * Ceil8(n))

\* C13: the chunked handle_shift does what the per-bit reference shifter
\* does, for every nbits: the write (0,1,1); then for i = 0..nbits-1, in
\* increasing order, the writes (0,tms_i,tdi_i), (1,tms_i,tdi_i),
\* (0,tms_i,tdi_i) with TDO sampled after the second one and stored in
\* bit i of the result, tms_i and tdi_i being bit i of the TMS and TDI bytes
\* (least significant bit first, from byte 0); then the write (0,1,0); and
\* exactly nbits clock pulses.
C13_PerBitReference ==
    ShiftReturned =>
        LET n   == sh.length
            tms == TmsBytes(sh.buffer, n)
            tdi == TdiBytes(sh.buffer, n)
        IN  /\ Len(xlog) = 4 * n + 2
            /\ xlog[1] = <<"w", 0, 1, 1>>
            /\ xlog[4 * n + 2] = <<"w", 0, 1, 0>>
            /\ \A i \in 0..(n - 1) :
                  /\ xlog[4 * i + 2] = <<"w", 0, BufferBit(tms, i), BufferBit(tdi, i)>>
                  /\ xlog[4 * i + 3] = <<"w", 1, BufferBit(tms, i), BufferBit(tdi, i)>>
                  /\ xlog[4 * i + 4] = <<"r", BufferBit(replies[1], i)>>
                  /\ xlog[4 * i + 5] = <<"w", 0, BufferBit(tms, i), BufferBit(tdi, i)>>
            /\ Cardinality({k \in 1..Len(xlog) : xlog[k][1] = "w" /\ xlog[k][2] = 1}) = n

\* a shift of 35 bits against a target that drives both levels
C13_Witness ==
    /\ ShiftReturned
    /\ sh.length = 35
    /\ tmode = "free"
    /\ xlog[4] = <<"r", 1>>
    /\ xlog[8] = <<"r", 0>>
    /\ Len(xlog) = 142

\* a buffer with the bits at positions >= n cleared
Truncated(buffer, n) ==
    [k \in 1..Len(buffer) |->
        IF 8 * k <= n THEN buffer[k]
        ELSE IF 8 * (k - 1) >= n THEN 0
        ELSE buffer[k] % Pow2(n - 8 * (k - 1))]

\* C14: against a target whose TDO is the current level of the TDI pin, a
\* shift of nbits bits returns the TDI bytes of the request with every bit
\* at a position >= nbits cleared.
C14_Loopback ==
    (ShiftReturned /\ tmode = "loop") =>
        replies[1] = Truncated(TdiBytes(sh.buffer, sh.length), sh.length)

\* 35 bits of TDI all 1 come back as four bytes 255 and a byte 7
C14_Witness ==
    /\ ShiftReturned
    /\ tmode = "loop"
    /\ sh.length = 35
    /\ TdiBytes(sh.buffer, 35) = <<255, 255, 255, 255, 255>>
    /\ replies[1] = <<255, 255, 255, 255, 7>>

----------------------------------------------------------------------------
\* Properties of the server, checked under SpecServer.

\* The well-formed commands at the head of a byte stream, found from the
\* protocol's framing alone: b"getinfo:" (reply of 20 bytes),
\* b"settck:" and 4 bytes (reply of 4 bytes), b"shift:", a length n with
\* 2 * ceil(n / 8) <= 4096 and 2 * ceil(n / 8) bytes (reply of ceil(n / 8)
\* bytes).  Each frame is [kind, start, size, reply, n].
Starts(s, at, word) ==
    /\ Len(s) >= at + Len(word)
    /\ SubSeq(s, at + 1, at + Len(word)) = word

WordGetinfo == <<103, 101, 116, 105, 110, 102, 111, 58>>
WordSettck  == <<115, 101, 116, 116, 99, 107, 58>>
WordShift   == <<115, 104, 105, 102, 116, 58>>

FrameAt(s, at) ==
    IF Starts(s, at, WordGetinfo)
    THEN [kind |-> "getinfo", start |-> at, size |-> 8, reply |-> 20, n |-> 0]
    ELSE IF Starts(s, at, WordSettck) /\ Len(s) >= at + 11
    THEN [kind |-> "settck", start |-> at, size |-> 11, reply |-> 4, n |-> 0]
    ELSE IF /\ Starts(s, at, WordShift) /\ Len(s) >= at + 10
            /\ s[at + 9] = 0 /\ s[at + 10] = 0
            /\ 2 * Ceil8(s[at + 7] + 256 * s[at + 8]) <= 4096
            /\ Len(s) >= at + 10 + 2 * Ceil8(s[at + 7] + 256 * s[at + 8])
    THEN LET n == s[at + 7] + 256 * s[at + 8]
         IN  [kind |-> "shift", start |-> at, size |-> 10 + 2 * Ceil8(n),
              reply |-> Ceil8(n), n |-> n]
    ELSE [kind |-> "none", start |-> at, size |-> 0, reply |-> 0, n |-> 0]

RECURSIVE Frames(_, _)
Frames(s, at) ==
    IF FrameAt(s, at).kind = "none" THEN <<>>
    ELSE <<FrameAt(s, at)>> \o Frames(s, at + FrameAt(s, at).size)

\* where the first k frames end
FramesEnd(fs, k) == IF k = 0 THEN 0 ELSE fs[k].start + fs[k].size

\* the server is between two commands of the connection, or has left it
BetweenCommands ==
    \/ xpc \in {"client_loop", "loop", "accept", "returned"}
    \/ xpc \in {"read", "recv"} /\ rcont = "prefix"

\* what can end a connection other than the commands themselves: the
\* peer's closing, a socket error, a shutdown
Disturbed == cause \in {"eof", "recv_error", "send_error", "stopped"}

\* C12: after any well-formed command (getinfo, settck, shift with any
\* nbits >= 0 such that 2 * ceil(nbits / 8) <= 4096) the server has consumed
\* exactly the command's bytes and sent exactly its reply (20, 4 or
\* ceil(nbits / 8) bytes), keeps the connection open and reads the next
\* command; a client that sends well-formed commands gets all the replies
\* in order.
C12_AsStated ==
    (conn # "none" /\ BetweenCommands /\ ~Disturbed) =>
        LET fs == Frames(stream, 0)
            n  == Len(replies)
        IN  /\ n <= Len(fs)
            /\ \A j \in 1..n : Len(replies[j]) = fs[j].reply
            /\ conn = "open" =>
                  pos = FramesEnd(fs, n) + (IF xpc \in {"read", "recv"} THEN Len(rdata) ELSE 0)
            /\ conn = "closed" => n = Len(fs)

\* the client has sent b"shift:" + u32(0); the server has consumed these
\* ten bytes and closed the connection without a reply
C12_Witness ==
    /\ stream = <<115, 104, 105, 102, 116, 58, 0, 0, 0, 0>>
    /\ pos = 10
    /\ conn = "closed"
    /\ cause = "empty"
    /\ replies = <<>>
    /\ running

\* the bytes of "xvcServer_v1.0:2048\n"
VersionText ==
    <<120, 118, 99, 83, 101, 114, 118, 101, 114, 95,
      118, 49, 46, 48, 58, 50, 48, 52, 56, 10>>

\* the server is serving a getinfo or a settck command
ServingPure == xpc \in {"read", "recv"} /\ rcont \in {"ge", "se"}

\* C15: getinfo and settck are pure: the reply to getinfo is always the
\* bytes "xvcServer_v1.0:2048\n", whatever preceded it; the reply to
\* settck is exactly the 4 period bytes received (the last 4 bytes
\* consumed); and serving either command writes no pin and changes neither
\* jtag_delay nor any other state of the server (the GPIO devices, the
\* listening socket, running).
C15_PureCommands ==
    [][ /\ (ServingPure /\ rcont = "ge" /\ replies' # replies) =>
              replies' = Append(replies, VersionText)
        /\ (ServingPure /\ rcont = "se" /\ replies' # replies) =>
              replies' = Append(replies, SubSeq(stream, pos - 3, pos))
        /\ (ServingPure /\ ~Signal) =>
              UNCHANGED <<pins, xlog, tpat, jtag_delay, gpio, server_socket, running>>
      ]_vars

\* a client has sent settck with the period 1000 ns and then getinfo, and
\* has both replies
C15_Witness ==
    /\ stream = <<115, 101, 116, 116, 99, 107, 58, 232, 3, 0, 0,
                  103, 101, 116, 105, 110, 102, 111, 58>>
    /\ replies = <<<<232, 3, 0, 0>>, VersionText>>
    /\ xlog = <<>>

\* the connection was ended by a command the protocol does not know, by
\* an oversized shift, or by a socket error
ProtocolErrors == {"prefix", "size"}
SocketErrors == {"recv_error", "send_error"}

\* the server is still in (or has regularly left) its accept loop: no
\* exception has escaped, the devices and the listening socket are held as
\* long as it has not returned, and it returns 0 when it does
Continues ==
    /\ xpc \in {"loop", "accept", "returned"}
    /\ xpc = "returned" => rc = 0
    /\ xpc # "returned" =>
          /\ rc = -1
          /\ server_socket = "listening"
          /\ \A d \in DOMAIN gpio : gpio[d] = "open"
    /\ (xpc = "accept" /\ clients < MaxClients) => ENABLED <<Accept /\ conn' = "open">>_vars

\* C16 as stated: on an unknown prefix, an oversized shift or a socket
\* error the connection is closed with no reply sent and no pin driven for
\* that command, and the accept loop goes on.
C16_AsStated ==
    (cause \in ProtocolErrors \cup SocketErrors) =>
        /\ conn = "closed"
        /\ Len(replies) = sent0
        /\ xlog = <<>>
        /\ Continues

\* C16, amended: on an unknown prefix, an oversized shift or a socket error
\* while a command is read, the connection is closed with no reply sent
\* and no pin driven for that command; on a socket error while a reply is
\* sent, the connection is closed and the reply is not sent, but the pins
\* of a shift have been driven by then; in each case the process does not
\* crash and the accept loop goes on to serve the next client.
C16_ErrorsClose ==
    /\ (cause \in ProtocolErrors \cup {"recv_error"}) =>
          /\ conn = "closed"
          /\ Len(replies) = sent0
          /\ xlog = <<>>
          /\ Continues
    /\ (cause = "send_error") =>
          /\ conn = "closed"
          /\ Len(replies) = sent0
          /\ Continues

\* sending the reply of a shift of 3 bits has failed after its pins were
\* driven; the server is back in accept
C16_Witness ==
    /\ cause = "send_error"
    /\ Len(xlog) = 14
    /\ conn = "closed"
    /\ xpc = "accept"
    /\ running

\* where, within its command, the safe_read in progress starts
ReadOffset(cont) ==
    IF cont = "prefix" THEN 0
    ELSE IF cont \in {"ge", "se", "sh"} THEN 2
    ELSE IF cont = "length" THEN 6
    ELSE 10

\* the reply a command calls for, given the bytes sent and the target
ExpectedReply(s, f) ==
    IF f.kind = "getinfo" THEN VersionText
    ELSE IF f.kind = "settck" THEN SubSeq(s, f.start + 8, f.start + 11)
    ELSE LET tdi == SubSeq(s, f.start + 11 + Ceil8(f.n), f.start + 10 + 2 * Ceil8(f.n))
         IN  IF tmode = "loop" THEN Truncated(tdi, f.n)
             ELSE [k \in 1..Ceil8(f.n) |-> 0]

\* C17: framing does not depend on how the stream is segmented: whatever
\* the chunks recv returns and whatever timeouts come in between,
\* safe_read(conn, n) collects exactly the next bytes of the stream, never
\* more than n, starting where the previous read ended; so each reply is
\* determined by the bytes sent.
C17_Framing ==
    LET fs == Frames(stream, 0)
    IN  /\ xpc \in {"read", "recv"} =>
              /\ Len(rdata) <= want
              /\ pos - Len(rdata) = FramesEnd(fs, Len(replies)) + ReadOffset(rcont)
              /\ rdata = SubSeq(stream, pos - Len(rdata) + 1, pos)
        /\ conn # "none" =>
              /\ Len(replies) <= Len(fs)
              /\ \A j \in 1..Len(replies) : replies[j] = ExpectedReply(stream, fs[j])

\* getinfo and a shift of 9 bits, answered although the shift's four
\* payload bytes came in four chunks and a read timed out
C17_Witness ==
    /\ stream = <<103, 101, 116, 105, 110, 102, 111, 58,
                  115, 104, 105, 102, 116, 58, 9, 0, 0, 0, 85, 1, 170, 1>>
    /\ tmode = "loop"
    /\ timed
    /\ nrecv = 4
    /\ replies = <<VersionText, <<170, 1>>>>

----------------------------------------------------------------------------
\* Shutdown, checked under FairSpecServer.

\* start_server has returned 0 with nothing left open
Down ==
    /\ xpc = "returned"
    /\ rc = 0
    /\ conn # "open"
    /\ server_socket = "closed"
    /\ \A d \in DOMAIN gpio : gpio[d] = "closed"

\* handle_client goes on to read a command
StartsCommand == xpc = "client_loop" /\ xpc' = "read"

\* C18: once the signal handler has set running to false, at whatever
\* moment of the listening server (in accept, waiting for the bytes of a
\* command, during a command), no further command is started and
\* eventually the client socket is closed, the listening socket is closed,
\* the GPIO devices are released and start_server has returned 0.
C18_Shutdown ==
    /\ ((~running /\ server_socket = "listening") ~> Down)
    /\ [][~running => ~StartsCommand]_vars

\* the signal came while a client was served: the connection was ended
\* for it and the server is down
C18_Witness ==
    /\ Down
    /\ cause = "stopped"
    /\ conn = "closed"
    /\ clients = 1

----------------------------------------------------------------------------
\* Release of the pins, checked under SpecServer.

\* C19: on every path by which start_server returns, every GPIO device
\* that was opened has been closed.
C19_AsStated ==
    xpc = "returned" => \A d \in DOMAIN gpio : gpio[d] # "open"

\* init_gpio failed at its second device: start_server has returned 1 and
\* the TDO device is still open
C19_Witness ==
    /\ xpc = "returned"
    /\ rc = 1
    /\ gpio["tdo"] = "open"
    /\ gpio["tdi"] = "none"

----------------------------------------------------------------------------
\* Parse errors, checked under SpecParse.

DecimalChars == {"0", "1", "2", "3", "4", "5", "6", "7", "8", "9"}
HexChars == DecimalChars \cup {"a", "b", "c", "d", "e", "f"}

AllIn(text, chars) == text # <<>> /\ \A i \in 1..Len(text) : text[i] \in chars

\* a number in decimal, or in hexadecimal after "0x", or in binary after "0b"
IsValueText(text) ==
    \/ AllIn(text, DecimalChars)
    \/ HasPrefix(text, <<"0", "x">>) /\ AllIn(SubSeq(text, 3, Len(text)), HexChars)
    \/ HasPrefix(text, <<"0", "b">>) /\ AllIn(SubSeq(text, 3, Len(text)), {"0", "1"})

KnownKinds == {"dr", "ir", "rs", "dl", "id", "irp", "ird", "drc", "drr", "drs"}

\* a row with an unparsable length or value, an invalid base prefix or an
\* unknown chain kind
Malformed(row) ==
    \/ ~AllIn(row[2], DecimalChars)
    \/ ~IsValueText(row[3])
    \/ row[1] \notin KnownKinds

HasMalformed(rows) == \E i \in 1..Len(rows) : Malformed(rows[i])

\* C20: when any row of a batch given to parse_rows is malformed, wherever
\* it stands in the batch, an error is raised and no leg of the batch is
\* executed: no phy_sync cycle is issued, and the walker's state, the TAP
\* state and last_ir_val are what they were.
C20_Atomic ==
    /\ [][ (given' # given /\ HasMalformed(given')) =>
              /\ pc' \in {"raised", "exited"}
              /\ pin_log' = <<>>
              /\ exec_log' = <<>>
              /\ UNCHANGED <<state, tap, last_ir_val>>
         ]_vars
    /\ [](HasMalformed(given) =>
              /\ pc \in {"raised", "exited"}
              /\ pin_log = <<>>
              /\ exec_log = <<>>
              /\ cur_leg = <<>>
              /\ state = start_state)

\* after an access has set last_ir_val, a batch whose first row is a good
\* IR row and whose second row has the base prefix "0q" was rejected, the
\* first row's leg still in the queue
C20_Witness ==
    /\ pc = "raised"
    /\ given = << <<"ir", <<"2">>, <<"0", "x", "3">> >>,
                  <<"ir", <<"2">>, <<"0", "q", "1">> >> >>
    /\ Len(jtag_legs) = 1
    /\ last_ir_val # MinusOne
    /\ pin_log = <<>>

----------------------------------------------------------------------------
\* Further properties of the walker, checked under Spec.

\* the pin events of the k-th phy_sync call since the batch began
CallEvents(k) == SubSeq(pin_log, 6 * (k - 1) + 1, 6 * k)

\* C21: every phy_sync(tdi, tms) call produces exactly the events: sample
\* TDO, write TCK=0, write TDI, write TMS, write TCK=1, write TCK=0, and
\* returns the TDO level sampled before any of its writes; so at every
\* rising edge of TCK the TDI and TMS writes of the cycle are done, and TCK
\* is 0 between calls.
C21_PhySyncEvents ==
    /\ [](/\ Len(pin_log) % 6 = 0
          /\ \A k \in 1..(Len(pin_log) \div 6) :
                LET e == CallEvents(k)
                IN  /\ e[1][1] = "tdo" /\ e[1][2] \in Bit
                    /\ e[2] = <<"tck", 0>>
                    /\ e[3][1] = "tdi" /\ e[3][2] \in Bit
                    /\ e[4][1] = "tms" /\ e[4][2] \in Bit
                    /\ e[5] = <<"tck", 1>>
                    /\ e[6] = <<"tck", 0>>)
    /\ [][ (state = "SHIFT" /\ pin_log' # pin_log) =>
              /\ Len(pin_log') = Len(pin_log) + 6
              /\ pin_log'[Len(pin_log) + 1] = <<"tdo", tdo_pin>>
              /\ tdo_vect'[1] = TdoChar(tdo_pin)
         ]_vars

\* a Shift cycle has returned the level 1 that the target drove before it
C21_Witness ==
    /\ state = "SHIFT"
    /\ tdo_vect = <<"1">>
    /\ Len(pin_log) >= 12
    /\ CallEvents(Len(pin_log) \div 6)[1] = <<"tdo", 1>>

\* the leg of the batch whose scan is in progress or was completed last
ScanLeg == IF cur_idx # 0 THEN BatchLegs[cur_idx] ELSE BatchLegs[exec_log[Len(exec_log)]]

\* the TDI and TMS levels of the k-th phy_sync call since the batch began
CallTdi(k) == CallEvents(k)[3][2]
CallTms(k) == CallEvents(k)[4][2]

\* C22: for a scan leg whose bit string has L characters the Shift state
\* issues exactly L phy_sync cycles; cycle i (from 0) presents as TDI
\* character L-1-i of the string, with TMS=0 except on the last cycle,
\* where TMS=1; after the last cycle the active leg is cleared and the
\* state is Exit1.
C22_ShiftCycles ==
    /\ (state = "SHIFT" /\ pc # "raised") =>
          /\ cur_leg # <<>>
          /\ Len(samples) + Len(cur_leg[2]) = Len(ScanLeg[2])
    /\ (state = "EXIT1") =>
          LET bits  == ScanLeg[2]
              L     == Len(bits)
              calls == Len(pin_log) \div 6
          IN  /\ cur_leg = <<>>
              /\ ScanLeg[1] \in ScanKinds
              /\ Len(samples) = L
              /\ \A i \in 0..(L - 1) :
                    /\ CallTdi(calls - L + 1 + i) = (IF bits[L - i] = "1" THEN 1 ELSE 0)
                    /\ CallTms(calls - L + 1 + i) = (IF i = L - 1 THEN 1 ELSE 0)

\* a scan of the two bits "10" has ended: TDI was 0, then 1 with TMS=1
C22_Witness ==
    /\ state = "EXIT1"
    /\ ScanLeg[2] = <<"1", "0">>
    /\ Len(samples) = 2
    /\ CallTdi(Len(pin_log) \div 6) = 1
    /\ CallTdi((Len(pin_log) \div 6) - 1) = 0

\* a DR leg has just been dispatched right after a scan leg of the batch
DrAfterScan ==
    /\ state = "SELECT_SCAN"
    /\ cur_idx > 1
    /\ cur_leg # <<>> /\ cur_leg[1] = "DR"
    /\ BatchLegs[cur_idx - 1][1] \in ScanKinds

\* the dispatch came straight out of Update: every call since Exit1 had TMS=1
CameDirect ==
    LET calls == Len(pin_log) \div 6
    IN  CallTms(calls) = 1 /\ CallTms(calls - 1) = 1

\* the dispatch came through RunTestIdle: Update issued phy_sync(0,0)
CameThroughIdle ==
    LET calls == Len(pin_log) \div 6
    IN  CallTms(calls) = 1 /\ CallTms(calls - 1) = 0

\* C23 (as stated): the direct transition into the next DR leg is taken when
\* the completed leg carried tag "id", and when it did not the walker
\* returns to RunTestIdle before the next DR leg.
C23_AsStated ==
    DrAfterScan =>
        IF BatchLegs[cur_idx - 1][3] = "id" THEN CameDirect ELSE CameThroughIdle

\* C23 (amended): at Update the walker takes the direct transition into the
\* next DR leg's SelectScan whenever the next leg is DR, whether or not the
\* completed leg carried tag "id"; the tag is stored with the leg and never
\* read by the walker.
C23_ShortcutIgnoresTag ==
    DrAfterScan => CameDirect

\* an IR leg without a tag followed by a DR leg: the shortcut was taken
C23_Witness ==
    /\ DrAfterScan
    /\ BatchLegs[cur_idx - 1][1] = "IR"
    /\ BatchLegs[cur_idx - 1][3] # "id"
    /\ CameDirect

\* and so it was after an IR leg that carried the tag
C23_WitnessTagged ==
    /\ DrAfterScan
    /\ BatchLegs[cur_idx - 1][3] = "id"
    /\ CameDirect

----------------------------------------------------------------------------
\* The cache of the instruction register, checked under SpecParse: calls of
\* access() interleaved with batches given to parse_rows directly (an "rs"
\* row is the batch reset_fsm gives).

\* the bit string the instruction register holds once the legs have been
\* carried out: that of the last IR scan, <<"reset">> if a TMS reset came
\* after it, <<"unknown">> if the legs hold neither
RECURSIVE ChainIrAfter(_)
ChainIrAfter(legs) ==
    IF legs = <<>> THEN <<"unknown">>
    ELSE LET l == legs[Len(legs)]
         IN  IF l[1] \in {"IR", "IRP", "IRD"} THEN l[2]
             ELSE IF l[1] = "RS" THEN <<"reset">>
             ELSE ChainIrAfter(SubSeq(legs, 1, Len(legs) - 1))

\* the last batch has been carried out to its end, and it shifted an IR vector
IrKnown ==
    /\ pc = "idle" /\ ~acc.active
    /\ jtag_legs = <<>> /\ cur_leg = <<>>
    /\ ChainIrAfter(BatchLegs) \notin {<<"unknown">>, <<"reset">>}

\* C24: last_ir_val is a faithful cache.  In every state reachable by any
\* interleaving of access(), reset_fsm() and direct parse_rows batches,
\* last_ir_val is -1 or equals the IR vector most recently shifted since the
\* last TMS reset; hence access() never skips its IR scan while the chain
\* holds a different value.
C24_AsStated ==
    /\ [](IrKnown =>
             \/ last_ir_val = MinusOne
             \/ last_ir_val = IntFromBin(ChainIrAfter(BatchLegs)))
    /\ [][ (IrKnown /\ acc'.active
              /\ IntFromBin(ChainIrAfter(BatchLegs)) # acc'.total_ir_val)
           => jtag_legs'[1][1] = "IR" ]_vars

\* a batch given directly has shifted 0b11 into the instruction register
\* while last_ir_val still holds the 0b01 of the access before it
C24_Witness ==
    /\ IrKnown
    /\ given # <<>>
    /\ ChainIrAfter(BatchLegs) = <<"1", "1">>
    /\ last_ir_val = FromNat(1)

----------------------------------------------------------------------------
\* Scan rows whose value does not fit the declared length, or whose declared
\* length is 0, and rows of the kinds that are not implemented: the batches
\* of Spec and, besides, batches of one such row (a wide "dr" row is the one
\* access() builds from a data argument wider than the register).

WideRows == {<<c, n, v>> \in {"dr", "ir"} \X (0..MaxBits) \X Values(MaxBits + 1) :
             n = 0 \/ Len(v) > n}

\* rows of the kinds parse_row knows and does not implement
UnimplementedRows == {<<c, 1, FromNat(1)>> : c \in {"drc", "drr", "drs"}}

WideBatches ==
    Batches \cup {<<r>> : r \in WideRows}
            \cup {<<r>> : r \in UnimplementedRows}
            \cup {<< <<"dr", 1, FromNat(1)>>, r >> : r \in UnimplementedRows}

ParseRowsWide ==
    \E rows \in WideBatches :
        /\ pc = "parse"
        /\ ParseRowsBody(rows)
        /\ UNCHANGED <<devices, acc, prev_acc, tms_reset_num, xvc>>

NextWide == ParseRowsBegin \/ ParseRowsWide \/ ResetFsm \/ jtag_step

SpecWide == Init /\ [][NextWide]_vars

\* C25: for every scan row with declared length L >= 0 and non-negative
\* value v, parse_row emits a bit string that is the binary representation
\* of v zero-padded to width L and has exactly L characters, so that the
\* number of Shift cycles of the leg equals the declared length.
C25_AsStated ==
    /\ \A i \in 1..Len(batch) :
          batch[i][1] \in ScanChains =>
              LET r == ParseRow(batch[i])
              IN  /\ r.res = "cmd"
                  /\ IntFromBin(r.cmd[2]) = batch[i][3]
                  /\ Len(r.cmd[2]) = batch[i][2]
    /\ (state = "EXIT1") => Len(samples) = batch[exec_log[Len(exec_log)]][2]

\* the row ["dr", 1, 2] has been scanned in two Shift cycles
C25_Witness ==
    /\ state = "EXIT1"
    /\ batch = << <<"dr", 1, FromNat(2)>> >>
    /\ Len(samples) = 2

UnimplementedKinds == {"DRC", "DRR", "DRS"}

\* the first row of the batch, if any, of a kind that is not implemented
FirstUnimplemented ==
    LET S == {i \in 1..Len(batch) : batch[i][1] \in {"drc", "drr", "drs"}}
    IN  IF S = {} THEN 0 ELSE CHOOSE i \in S : \A j \in S : i <= j

\* C26: DRC/DRR/DRS are unimplemented and fatal.  parse_row raises on such a
\* row and appends no leg for it, so parse_rows never starts the walker on
\* the batch; in every state reachable through parse_rows the active leg and
\* the queued legs are never DRC/DRR/DRS, readout is never true, readdata is
\* never written, and the "not implemented" raise of the Shift state is
\* never reached.
C26_Unimplemented ==
    /\ (FirstUnimplemented # 0) =>
          /\ pc = "raised"
          /\ Len(jtag_legs) = FirstUnimplemented - 1
          /\ cur_leg = <<>>
          /\ pin_log = <<>>
    /\ cur_leg = <<>> \/ cur_leg[1] \notin UnimplementedKinds
    /\ \A i \in 1..Len(jtag_legs) : jtag_legs[i][1] \notin UnimplementedKinds
    /\ readout = FALSE
    /\ readdata = <<>>
    /\ (state = "SHIFT") => pc # "raised"

\* the batch [dr, drs]: parse_rows has raised on the second row, the leg of
\* the first row is queued and no pin has moved
C26_Witness ==
    /\ pc = "raised"
    /\ Len(batch) = 2 /\ batch[2][1] = "drs"
    /\ Len(jtag_legs) = 1 /\ jtag_legs[1][1] = "DR"
    /\ pin_log = <<>>

----------------------------------------------------------------------------
\* GPIO failures during a shift, checked under SpecFault.

\* a pin write of the running or returned handle_shift has failed
WriteFailed == \E k \in 1..Len(xlog) : xlog[k][1] = "error"

\* C27: GPIO errors are surfaced.  If a pin write or the TDO read fails
\* during an XVC shift, the failure is logged and reported to the caller of
\* the operation: handle_shift does not return a normal TDO reply as though
\* the shift had succeeded.
C27_AsStated ==
    (sh.active /\ WriteFailed) => ~(xpc = "called" /\ replies # <<>>)

\* handle_shift has returned two bytes of TDO for a shift of 9 bits none of
\* whose pin writes took effect
C27_Witness ==
    /\ ShiftReturned
    /\ sh.length = 9
    /\ \A k \in 1..Len(xlog) : xlog[k][1] \in {"error", "r"}
    /\ replies = << <<0, 0>> >>

----------------------------------------------------------------------------
\* read() with an expected value, checked under SpecRead.

\* C28: read verification does not influence the access.  For any register,
\* device and chain state, read(addr, expected) hands the walker the rows
\* read(addr) hands it (the IR row the cache calls for and a DR row of value
\* 0, so that TDI is 0 in every DR Shift cycle), returns the value the TDO
\* samples of the DR scan give, and raises nothing, whatever expected is and
\* whether or not it matches.
C28_ExpectedIgnored ==
    Accessed =>
        LET n   == Len(devices)
            raw == sampled[Len(sampled)].bits
        IN  /\ ~acc.jwrite
            /\ IrEmitted \/ DrOnly
            /\ IrEmitted => batch[1] = <<"ir", acc.total_ir_len, acc.total_ir_val, "id">>
            /\ acc.active =>
                  (IrEmitted <=> (~ ("device" \in DOMAIN prev_acc)
                                  \/ acc.total_ir_val # prev_acc.total_ir_val))
            /\ batch[Len(batch)] = <<"dr", acc.dr_len + n - 1, <<>> >>
            /\ (cur_leg # <<>> /\ cur_leg[1] = "DR") =>
                  \A i \in 1..Len(cur_leg[2]) : cur_leg[2][i] = "0"
            /\ (state = "SHIFT" /\ scan_kind = "DR" /\ Len(samples) > 0) =>
                  CallTdi(Len(pin_log) \div 6) = 0
            /\ pc \notin {"raised", "exited"}
            /\ ~acc.active =>
                  acc.returned_data = BitAnd(Shr(raw, n - 1 - acc.device), Ones(acc.dr_len))

\* a read that expected 3 has returned 1: the mismatch changed nothing
C28_Witness ==
    /\ Accessed /\ ~acc.active /\ pc = "idle"
    /\ acc.data = FromNat(3)
    /\ acc.returned_data = FromNat(1)

\* a read that expected 3 has returned 3
C28_WitnessMatch ==
    /\ Accessed /\ ~acc.active /\ pc = "idle"
    /\ acc.data = FromNat(3)
    /\ acc.returned_data = FromNat(3)

----------------------------------------------------------------------------
\* The Pause detour, checked under Spec.

\* C29: do_pause is true only while an IRP leg is in progress, from its
\* dispatch (in RunTestIdle or by the shortcut of Update) until its Exit1
\* step; hence the walker visits Pause and Exit2 exactly once per IRP leg
\* (Exit1 goes to Pause if and only if the leg is IRP, Pause goes to Exit2
\* and Exit2 to Update) and never during a dr, ir or ird leg, whatever legs
\* precede it in the batch.
C29_PauseOnlyIrp ==
    /\ [](/\ do_pause => /\ scan_kind = "IRP"
                         /\ state \in {"SELECT_SCAN", "CAPTURE", "SHIFT", "EXIT1"}
          /\ (scan_kind = "IRP" /\ state \in {"SELECT_SCAN", "CAPTURE", "SHIFT", "EXIT1"})
                => do_pause
          /\ state \in {"PAUSE", "EXIT2"} => scan_kind = "IRP")
    /\ [][ /\ (state = "EXIT1" /\ state' # state) =>
                 IF scan_kind = "IRP" THEN state' = "PAUSE" ELSE state' = "UPDATE"
           /\ (state = "PAUSE" /\ state' # state) => state' = "EXIT2"
           /\ (state = "EXIT2" /\ state' # state) => state' = "UPDATE"
           /\ (state' = "PAUSE" /\ state # state') => state = "EXIT1"
           /\ (state' = "EXIT2" /\ state # state') => state = "PAUSE"
         ]_vars

\* an IRP leg entered by the shortcut after an IRD leg is in Exit2
C29_Witness ==
    /\ state = "EXIT2"
    /\ scan_kind = "IRP"
    /\ Len(batch) = 2 /\ batch[1][1] = "ird" /\ batch[2][1] = "irp"
    /\ ~do_pause

----------------------------------------------------------------------------
\* A batch that ends with a dl or id leg, checked under Spec.

\* the last row of the batch is a dl or an id row
EndsWithDlId == batch # <<>> /\ batch[Len(batch)][1] \in {"dl", "id"}

\* C30: a batch whose final leg is dl or id completes without raising: after
\* the 5 ms delay (dl) or the single phy_sync(0,0) idle cycle (id) the walker
\* has no active leg, the pending queue is empty and the state is
\* RunTestIdle, as after an rs leg with nothing after it.
C30_AsStated ==
    EndsWithDlId =>
        /\ pc # "raised"
        /\ (pc = "idle" =>
              /\ cur_leg = <<>>
              /\ jtag_legs = <<>>
              /\ state = "RUN_TEST_IDLE")

\* the batch [id]: the idle cycle has been issued, then the pop of the empty
\* queue has raised with the id leg still active
C30_Witness ==
    /\ pc = "raised"
    /\ batch = << <<"id", 0, <<>> >> >>
    /\ cur_leg # <<>> /\ cur_leg[1] = "ID"
    /\ Len(pin_log) = 6
    /\ CallTdi(1) = 0 /\ CallTms(1) = 0

----------------------------------------------------------------------------
\* The pins between commands, checked under SpecServer.

\* handle_client waits for the first byte of a command
AwaitingCommand == xpc \in {"read", "recv"} /\ rcont = "prefix" /\ rdata = <<>>

\* C31: whenever the XVC server is waiting for the first byte of a command
\* (after init_gpio and after every completed getinfo, settck or shift, the
\* GPIO devices being open), the output pins rest at TCK=0, TMS=1, TDI=0.
C31_PinsAtRest ==
    AwaitingCommand =>
        /\ \A d \in DOMAIN gpio : gpio[d] = "open"
        /\ pins = Levels(0, 1, 0)

\* the server waits for the next command after the shift of three bits,
\* whose last bit had TMS=0 and TDI=1
C31_Witness ==
    /\ AwaitingCommand
    /\ replies # <<>>
    /\ Len(replies[Len(replies)]) = 1
    /\ pins = Levels(0, 1, 0)

----------------------------------------------------------------------------
\* Setup before clock on the pins of handle_shift, checked under SpecShift.

\* the pin events a step adds to the record (the record is started afresh
\* when handle_shift is entered)
NewEvents ==
    IF Len(xlog') >= Len(xlog) /\ SubSeq(xlog', 1, Len(xlog)) = xlog
    THEN SubSeq(xlog', Len(xlog) + 1, Len(xlog'))
    ELSE xlog'

\* gpio_write calls made one after the other from the levels p: gpio_write
\* assigns TCK first, so TMS and TDI change with TCK at the level written;
\* they may change only with TCK at 0, and where TCK rises they hold the
\* levels written with it already
RECURSIVE SetupHolds(_, _)
SetupHolds(p, writes) ==
    IF writes = <<>> THEN TRUE
    ELSE LET w == Head(writes)
         IN  /\ (w[3] # p.tms \/ w[4] # p.tdi) => w[2] = 0
             /\ (p.tck = 0 /\ w[2] = 1) => (p.tms = w[3] /\ p.tdi = w[4])
             /\ SetupHolds(Levels(w[2], w[3], w[4]), Tail(writes))

\* the writes of a step that raise TCK: at most one, for the bit sh.i
RisingWrites(p, writes) ==
    {k \in 1..Len(writes) :
        writes[k][2] = 1 /\ (IF k = 1 THEN p.tck ELSE writes[k - 1][2]) = 0}

\* C32: setup before clock on the XVC path.  Although gpio_write writes TCK
\* before TMS and TDI, at every TCK 0-to-1 transition produced by
\* handle_shift the TMS and TDI pins already hold bit i's values, and the
\* TMS and TDI pin values never change while TCK is 1, across chunk
\* boundaries and the pre-roll and post-roll writes included.
C32_SetupBeforeClock ==
    [][ LET writes == SelectSeq(NewEvents, LAMBDA e : e[1] = "w")
        IN  /\ \A k \in 1..Len(NewEvents) : NewEvents[k][1] \in {"w", "r"}
            /\ SetupHolds(pins, writes)
            /\ pins.tck = 0
            /\ (RisingWrites(pins, writes) # {}) =>
                  /\ xpc = "transfer"
                  /\ Cardinality(RisingWrites(pins, writes)) = 1
                  /\ \A k \in RisingWrites(pins, writes) :
                        /\ k > 1
                        /\ writes[k - 1][3] = sh.tms[sh.i + 1]
                        /\ writes[k - 1][4] = sh.tdi[sh.i + 1]
      ]_vars

\* the first bit of the second chunk has been clocked with TMS=1 and TDI=0,
\* the last bit of the first chunk having left TMS=0 and TDI=1
C32_Witness ==
    /\ xpc = "transfer"
    /\ sh.byte_index = 4
    /\ sh.i = 1
    /\ xlog[Len(xlog) - 4] = <<"w", 0, 0, 1>>
    /\ xlog[Len(xlog) - 2] = <<"w", 1, 1, 0>>
    /\ pins = Levels(0, 1, 0)

----------------------------------------------------------------------------
\* What one jtag_step drives, computed from the walker's control fields
\* alone: the state, the leg in hand, the queue, do_pause and the reset
\* count go in, and the phy_sync calls, each <<tdi, tms>>, the new control
\* fields and whether the step raises come out.  Neither the TDO level nor
\* anything computed from one (tdo_vect, jtag_results) appears in it.

Drive(st, leg, legs, pause, num) ==
    LET out(s, l, q, p, calls) ==
            [state |-> s, cur_leg |-> l, jtag_legs |-> q, do_pause |-> p,
             calls |-> calls, raised |-> FALSE]
        raise == [out(st, leg, legs, pause, <<>>) EXCEPT !.raised = TRUE]
    IN  CASE st = "TEST_LOGIC_RESET" ->
                IF legs # <<>> THEN out("RUN_TEST_IDLE", leg, legs, pause, << <<0, 0>> >>)
                ELSE out(st, leg, legs, pause, <<>>)
          [] st = "RUN_TEST_IDLE" /\ leg = <<>> ->
                IF legs # <<>> THEN out(st, Head(legs), Tail(legs), pause, <<>>)
                ELSE out(st, leg, legs, pause, << <<0, 0>> >>)
          [] st = "RUN_TEST_IDLE" /\ leg # <<>> ->
                (CASE leg[1] \in {"DR", "DRC", "DRR", "DRS"} ->
                        out("SELECT_SCAN", leg, legs, pause, << <<0, 1>> >>)
                  [] leg[1] \in {"IR", "IRD", "IRP"} ->
                        out("SELECT_SCAN", leg, legs, leg[1] = "IRP", << <<0, 1>>, <<0, 1>> >>)
                  [] leg[1] = "RS" ->
                        out("TEST_LOGIC_RESET",
                            IF legs # <<>> THEN Head(legs) ELSE <<>>,
                            IF legs # <<>> THEN Tail(legs) ELSE legs,
                            pause, [i \in 1..num |-> <<0, 1>>])
                  [] leg[1] \in {"DL", "ID"} ->
                        LET calls == IF leg[1] = "ID" THEN << <<0, 0>> >> ELSE <<>>
                        IN  IF legs # <<>> THEN out(st, Head(legs), Tail(legs), pause, calls)
                            ELSE [raise EXCEPT !.calls = calls])
          [] st = "SELECT_SCAN" -> out("CAPTURE", leg, legs, pause, << <<0, 0>> >>)
          [] st = "CAPTURE" -> out("SHIFT", leg, legs, pause, << <<0, 0>> >>)
          [] st = "SHIFT" ->
                IF leg[1] \in {"DRC", "DRS"} THEN raise
                ELSE IF Len(leg[2]) > 1
                     THEN out("SHIFT", [leg EXCEPT ![2] = SubSeq(@, 1, Len(@) - 1)], legs, pause,
                              << <<IF leg[2][Len(leg[2])] = "1" THEN 1 ELSE 0, 0>> >>)
                     ELSE out("EXIT1", <<>>, legs, pause,
                              << <<IF leg[2][1] = "1" THEN 1 ELSE 0, 1>> >>)
          [] st = "EXIT1" ->
                IF pause THEN out("PAUSE", leg, legs, FALSE, << <<0, 0>> >>)
                ELSE out("UPDATE", leg, legs, pause, << <<0, 1>> >>)
          [] st = "PAUSE" -> out("EXIT2", leg, legs, pause, << <<0, 1>> >>)
          [] st = "EXIT2" -> out("UPDATE", leg, legs, pause, << <<0, 1>> >>)
          [] st = "UPDATE" ->
                IF legs # <<>> /\ legs[1][1] = "DR"
                THEN out("SELECT_SCAN", Head(legs), Tail(legs), pause, << <<0, 1>> >>)
                ELSE IF legs # <<>> /\ legs[1][1] \in {"IRP", "IRD"}
                THEN out("SELECT_SCAN", Head(legs), Tail(legs),
                         IF legs[1][1] = "IRP" THEN TRUE ELSE pause,
                         << <<0, 1>>, <<0, 1>> >>)
                ELSE out("RUN_TEST_IDLE", leg, legs, pause, << <<0, 0>> >>)

Driven == Drive(state, cur_leg, jtag_legs, do_pause, tms_reset_num)

\* the pin writes of a run of phy_sync calls
RECURSIVE WritesOf(_)
WritesOf(calls) ==
    IF calls = <<>> THEN <<>>
    ELSE << <<"tck", 0>>, <<"tdi", calls[1][1]>>, <<"tms", calls[1][2]>>,
            <<"tck", 1>>, <<"tck", 0>> >> \o WritesOf(Tail(calls))

\* C33: the walker's drive does not depend on TDO.  Every jtag_step writes
\* the pins, moves the walker's state, leg, queue and do_pause and leaves
\* the driver loops exactly as Drive gives them from the control fields
\* before the step, whatever TDO levels the target has returned and returns
\* during the step; so two runs of one batch against targets answering
\* differently write the same TCK/TDI/TMS sequence, pass the same walker
\* states and clock the same number of cycles.
C33_DriveIgnoresTdo ==
    [][ Stepping =>
            LET new == SubSeq(pin_log', Len(pin_log) + 1, Len(pin_log'))
            IN  /\ SubSeq(pin_log', 1, Len(pin_log)) = pin_log
                /\ PinWrites(new) = WritesOf(Driven.calls)
                /\ Len(new) = 6 * Len(Driven.calls)
                /\ <<state', cur_leg', jtag_legs', do_pause'>>
                       = <<Driven.state, Driven.cur_leg, Driven.jtag_legs, Driven.do_pause>>
                /\ pc' = IF Driven.raised THEN "raised"
                         ELSE IF pc = "loop1"
                              THEN AfterLoop1(Driven.state, Driven.cur_leg, Driven.jtag_legs)
                              ELSE AfterLoop2(Driven.state, Driven.jtag_legs)
                /\ UNCHANGED <<tms_reset_num, batch>> ]_vars

\* a two-bit DR scan from Run-Test/Idle has run its seven cycles and the
\* target answered 1 then 0 on TDO
C33_Witness ==
    /\ pc = "idle" /\ start_state = "RUN_TEST_IDLE"
    /\ Len(BatchLegs) = 1 /\ BatchLegs[1][1] = "DR" /\ Len(BatchLegs[1][2]) = 2
    /\ Len(pin_log) = 42
    /\ Len(sampled) = 1 /\ sampled[1].bits = <<1, 0>>
    /\ Len(jtag_results) = 1

\* the same scan against a target that answered 0 then 1
C33_WitnessOther ==
    /\ pc = "idle" /\ start_state = "RUN_TEST_IDLE"
    /\ Len(BatchLegs) = 1 /\ BatchLegs[1][1] = "DR" /\ Len(BatchLegs[1][2]) = 2
    /\ Len(pin_log) = 42
    /\ Len(sampled) = 1 /\ sampled[1].bits = <<0, 1>>
    /\ Len(jtag_results) = 1

----------------------------------------------------------------------------
\* The bytes of the command being served: safe_read takes exactly the bytes
\* it is asked for, so the command in hand ends at pos and has the length
\* of its kind.

GetinfoBytes == <<103, 101, 116, 105, 110, 102, 111, 58>>
SettckBytes == <<115, 101, 116, 116, 99, 107, 58>>
ShiftBytes == <<115, 104, 105, 102, 116, 58>>

CommandLen ==
    IF rcont = "ge" THEN 8
    ELSE IF rcont = "se" THEN 11
    ELSE 10 + 2 * NumBytes(sh.length)

Received == SubSeq(stream, pos - CommandLen + 1, pos)

Named(name, n) == SubSeq(Received, 1, n) = SubSeq(name, 1, n)

Replying == Len(replies') > Len(replies)

PinActivity == xlog' # xlog /\ xlog' # <<>>

\* the dispatch: the two bytes of the prefix are in and a step goes on
Dispatching == rcont = "prefix" /\ Len(rdata) = 2 /\ rcont' # rcont

\* C34 as stated: a reply is sent, and a shift performed, only for a
\* command whose name is spelled out: "getinfo:" for the version string,
\* "settck:" for the echo of the period, "shift:" for a shift and its reply.
C34_AsStated ==
    [][ conn = "open" =>
            /\ Replying => rcont \in {"ge", "se", "buffer"}
            /\ (Replying /\ rcont = "ge") => Named(GetinfoBytes, 8)
            /\ (Replying /\ rcont = "se") => Named(SettckBytes, 7)
            /\ ((Replying \/ PinActivity) /\ rcont = "buffer") => Named(ShiftBytes, 6) ]_vars

\* C34, amended: the server tells the commands apart by their first two
\* bytes.  A reply is sent, and a shift performed, only for a command
\* that begins with "ge", "se" or "sh" and whose bytes have all arrived;
\* the bytes between the prefix and the arguments are read and not looked
\* at.  A command with any other first two bytes closes the connection
\* with no reply and no pin activity, and only such a prefix is refused.
C34_PrefixOnly ==
    [][ conn = "open" =>
            /\ Replying => rcont \in {"ge", "se", "buffer"}
            /\ (Replying /\ rcont = "ge") =>
                    Named(GetinfoBytes, 2) /\ replies'[Len(replies')] = XvcVersion
            /\ (Replying /\ rcont = "se") =>
                    Named(SettckBytes, 2) /\ replies'[Len(replies')] = SubSeq(Received, 8, 11)
            /\ ((Replying \/ PinActivity) /\ rcont = "buffer") => Named(ShiftBytes, 2)
            /\ PinActivity => rcont = "buffer"
            /\ Dispatching =>
                    IF rdata = SubSeq(GetinfoBytes, 1, 2) THEN conn' = "open" /\ rcont' = "ge"
                    ELSE IF rdata = SubSeq(SettckBytes, 1, 2) THEN conn' = "open" /\ rcont' = "se"
                    ELSE IF rdata = SubSeq(ShiftBytes, 1, 2) THEN conn' = "open" /\ rcont' = "sh"
                    ELSE /\ conn' = "closed" /\ cause' = "prefix"
                         /\ replies' = replies /\ Len(replies) = sent0
                         /\ xlog = <<>> /\ xlog' = <<>> ]_vars

\* a client sent b"getinfo;" and has the version string
C34_Witness ==
    /\ conn = "open" /\ xpc = "client_loop"
    /\ stream = <<103, 101, 116, 105, 110, 102, 111, 59>> /\ pos = 8
    /\ replies = <<XvcVersion>>

\* a client sent b"shape:" with three bits and has the reply of a shift
C34_WitnessShift ==
    /\ conn = "open" /\ xpc = "client_loop"
    /\ stream = <<115, 104, 97, 112, 101, 58, 3, 0, 0, 0, 2, 5>> /\ pos = 12
    /\ Len(replies) = 1 /\ Len(replies[1]) = 1
    /\ xlog # <<>>

\* a client sent b"xx" and the connection is closed with nothing sent
C34_WitnessRefused ==
    /\ conn = "closed" /\ cause = "prefix"
    /\ stream = <<120, 120>> /\ replies = <<>> /\ xlog = <<>>

====
